---- MODULE Spec2Model ----
(***************************************************************************)
(* A model of the forging-spec-manager page component                     *)
(* (src/app/page.jsx and the revisions of it in src/unnamed/part_000):     *)
(*   - fetchWithRetry, the retry wrapper around fetch;                     *)
(*   - generateSpecMetadata, the call to the generative-AI endpoint;       *)
(*   - SpecUploadModal, the upload queue and its analysis workers;         *)
(*   - handleSaveAnalyzedSpecs and the catalog list;                       *)
(*   - filteredSpecs, the search filter.                                   *)
(*                                                                         *)
(* JavaScript strings that the code inspects (file names, summaries,      *)
(* keywords, search terms) are sequences of one-character strings; error   *)
(* messages, which the code only builds and stores, are TLA+ strings.      *)
(* Korean message texts are rendered in English, the original in a         *)
(* comment next to each.                                                   *)
(***************************************************************************)
EXTENDS Integers, Sequences, FiniteSets, TLC

VARIABLES
    \* ---- one call of fetchWithRetry (specification SpecFetch, and the
    \*      network phase of specification SpecMeta)
    fRetries,     \* the `retries` argument
    fI,           \* the loop variable i
    fPc,          \* "idle" | "fetch" | "sleep" | "returned" | "thrown" | "fellthrough"
    fAttempts,    \* number of calls of fetch(url, options) answered so far
    fHist,        \* what fetch answered, attempt by attempt
    fResult,      \* the value returned or the error thrown
    fDelays,      \* the backoff delays slept so far (ms)
    \* ---- one call of generateSpecMetadata (specification SpecMeta)
    mKey,         \* whether a Gemini API key is configured
    mPc,          \* "none" | "call" | "fetching" | "returned" | "thrown"
    mBody,        \* the body of the ok response, once it has been read
    mResult,      \* the {summary, keywords} returned, or the error thrown
    \* ---- the page: ForgingSpecManager and its SpecUploadModal (specification Spec)
    apiKey,       \* whether NEXT_PUBLIC_GEMINI_API_KEY is set
    modalOpen,    \* modal.isOpen && modal.type === 'upload'
    uploadQueue,  \* SpecUploadModal's uploadQueue state
    isAnalyzing,  \* SpecUploadModal's isAnalyzing state (the busy flag)
    tasks,        \* the calls of analyzeAndSetQueue in flight
    nextId,       \* the ids crypto.randomUUID() has handed out, as a counter
    loading,      \* ForgingSpecManager's loading state
    error,        \* ForgingSpecManager's error state
    specs,        \* ForgingSpecManager's specs state (the catalog list)
    db,           \* the documents of the forging_specs collection
    saving,       \* the call of handleSaveAnalyzedSpecs in flight
    searchTerm,   \* ForgingSpecManager's searchTerm state (the search box)
    deleting,     \* the calls of deleteDoc in flight (remote variant)
    stored,       \* localStorage's value under LOCAL_STORAGE_KEY (local variant)
    now,          \* the clock, in milliseconds (local variant)
    mounted,      \* the page: "no" before its mount effect, "yes", "crashed"
    isAuthReady,  \* ForgingSpecManager's isAuthReady state
    userId,       \* ForgingSpecManager's userId state: "null" or the uid
    authPc,       \* where the sign-in started by the auth effect stands
    timeoutId,    \* the 5 s timer of the auth effect: "pending" | "fired"
    listener,     \* the onSnapshot listener and the `error` its callback closed over
    lastOp        \* history: the operation that made the last step

fetchVars == <<fRetries, fI, fPc, fAttempts, fHist, fResult, fDelays>>
metaVars == <<mKey, mPc, mBody, mResult>>
modalVars == <<uploadQueue, isAnalyzing, tasks>>
localVars == <<stored, now, mounted>>
authVars == <<isAuthReady, userId, authPc, timeoutId, listener>>
pageVars ==
    <<apiKey, modalOpen, modalVars, nextId, loading, error, specs, db, saving,
      searchTerm, deleting, localVars, authVars, lastOp>>

vars == <<fetchVars, metaVars, pageVars>>

-----------------------------------------------------------------------------
(* Bounds *)

\* largest `retries` argument tried in SpecFetch
MaxRetries == 3

-----------------------------------------------------------------------------
(* fetch and its answers *)

\* HTTP statuses the endpoint answers with: success, rate limit, server error,
\* not found.
Statuses == {200, 429, 500, 404}

\* fetch() either resolves with a Response or rejects (transport failure).
FetchAnswers ==
    {[kind |-> "response", status |-> s] : s \in Statuses}
        \cup {[kind |-> "reject", status |-> 0]}

\* Response.ok: the status is in 200..299.
ResponseOk(response) == response.status >= 200 /\ response.status <= 299

\* The message of the TypeError a rejected fetch carries.
FailedToFetch == "Failed to fetch"

\* `HTTP error! status: ${response.status}`
HttpErrorMessage(status) == "HTTP error! status: " \o ToString(status)

\* Math.random() * 1000, in whole milliseconds: a value in [0, 1000).
Jitters == {0, 500, 999}

RECURSIVE Pow2(_)
\* Math.pow(2, i)
Pow2(i) == IF i = 0 THEN 1 ELSE 2 * Pow2(i - 1)

\* the delay that does not grow with i
BackoffDelayFixed(i, jitter) == 1000 + jitter

\* const delay = Math.pow(2, i) * 1000 + Math.random() * 1000;
BackoffDelay(i, jitter) == Pow2(i) * 1000 + jitter

NoValue == [kind |-> "none", status |-> 0, message |-> ""]
Returned(response) == [kind |-> "response", status |-> response.status, message |-> ""]
Thrown(message) == [kind |-> "error", status |-> 0, message |-> message]

\* the catch block that rethrows on every attempt
CatchBlockRethrows(i, retries, message) == [do |-> "throw", message |-> message]

\* catch (error) { if (i === retries - 1) throw error; }
CatchBlock(i, retries, message) ==
    IF i = retries - 1
    THEN [do |-> "throw", message |-> message]
    ELSE [do |-> "next", message |-> ""]

\* The 429 branch with the bound of the loop instead of the last index: the
\* last attempt sleeps too and the loop then ends without a result.
FetchIterationSleepsOnLast(i, retries, answer) ==
    IF answer.kind = "reject" THEN CatchBlock(i, retries, FailedToFetch)
    ELSE IF ResponseOk(answer) THEN [do |-> "return", message |-> ""]
    ELSE IF answer.status = 429 /\ i < retries THEN [do |-> "sleep", message |-> ""]
    ELSE CatchBlock(i, retries, HttpErrorMessage(answer.status))

\* One iteration of the loop of fetchWithRetry, from what fetch answered:
\*   try { response = await fetch(); if (response.ok) return response;
\*         if (response.status === 429 && i < retries - 1) { sleep; continue; }
\*         throw new Error(`HTTP error! status: ...`);
\*   } catch (error) { if (i === retries - 1) throw error; }
\* The throw of the HTTP error is inside the try, so the catch block sees it.
FetchIteration(i, retries, answer) ==
    IF answer.kind = "reject" THEN CatchBlock(i, retries, FailedToFetch)
    ELSE IF ResponseOk(answer) THEN [do |-> "return", message |-> ""]
    ELSE IF answer.status = 429 /\ i < retries - 1 THEN [do |-> "sleep", message |-> ""]
    ELSE CatchBlock(i, retries, HttpErrorMessage(answer.status))

\* for (let i = 0; i < retries; i++): the state after i++ .
LoopNext(i, retries) == IF i + 1 < retries THEN "fetch" ELSE "fellthrough"

-----------------------------------------------------------------------------
(* JSON values, as JSON.parse and response.json() produce them *)

JUndefined == [kind |-> "undefined", val |-> 0]
JNull == [kind |-> "null", val |-> 0]
JBool(b) == [kind |-> "boolean", val |-> b]
JNum(n) == [kind |-> "number", val |-> n]
JStr(s) == [kind |-> "string", val |-> s]
JArr(a) == [kind |-> "array", val |-> a]
\* an object; as the value of a property only its being an object matters
JEmptyObj == [kind |-> "object", val |-> <<>>]
\* an object by its two properties the code reads; a property the object
\* lacks is JUndefined
JObj(summary, keywords) ==
    [kind |-> "object", val |-> [summary |-> summary, keywords |-> keywords]]

\* JavaScript's ToBoolean.
Truthy(j) ==
    CASE j.kind \in {"undefined", "null"} -> FALSE
      [] j.kind = "boolean" -> j.val
      [] j.kind = "number" -> j.val # 0
      [] j.kind = "string" -> j.val # <<>>
      [] OTHER -> TRUE

\* a || b
JsOr(a, b) == IF Truthy(a) THEN a ELSE b

\* Array.isArray(j)
IsArray(j) == j.kind = "array"

\* j.summary and j.keywords, for j neither null nor undefined: a property of
\* a number, boolean, string or array that it does not have is undefined.
PropSummary(j) ==
    IF j.kind = "object" /\ j.val # <<>> THEN j.val.summary ELSE JUndefined
PropKeywords(j) ==
    IF j.kind = "object" /\ j.val # <<>> THEN j.val.keywords ELSE JUndefined

\* "요약 생성 실패" (summary generation failed)
SummaryFallback == <<"f", "a", "i", "l", "e", "d">>

\* Values of the summary property of the payload.
SummaryValues ==
    { JUndefined, JNull, JStr(<<>>), JStr(<<"s">>), JNum(0), JNum(42),
      JBool(FALSE), JBool(TRUE), JArr(<<>>), JEmptyObj }

\* Values of the keywords property of the payload.
KeywordsValues ==
    { JUndefined, JNull, JArr(<<>>), JArr(<<JStr(<<"k">>)>>),
      JArr(<<JStr(<<"k">>), JNum(7)>>), JStr(<<"k">>), JEmptyObj }

\* What the text payload can parse to: any JSON value.
ParsedValues ==
    { JNull, JBool(TRUE), JNum(5), JStr(<<"s">>), JArr(<<>>) }
        \cup { JObj(s, k) : s \in SummaryValues, k \in KeywordsValues }

\* The text of candidates[0].content.parts[0].text: empty, not JSON, or the
\* JSON text of a value.
Texts ==
    { [empty |-> TRUE, parses |-> FALSE, value |-> JUndefined],
      [empty |-> FALSE, parses |-> FALSE, value |-> JUndefined] }
        \cup { [empty |-> FALSE, parses |-> TRUE, value |-> v] : v \in ParsedValues }

\* The body of an ok response, as response.json() and the optional chain
\* result.candidates?.[0]?.content?.parts?.[0]?.text see it:
\*   "notjson"  the body is not JSON: response.json() rejects
\*   "null"     the body is the JSON null: result.candidates throws
\*   "notext"   the chain yields undefined (no candidate, no part, no text)
\*   "text"     the chain yields the string `text`
NoText == [empty |-> TRUE, parses |-> FALSE, value |-> JUndefined]
NoBody == [kind |-> "none", text |-> NoText]
Bodies ==
    { [kind |-> k, text |-> NoText] : k \in {"notjson", "null", "notext"} }
        \cup { [kind |-> "text", text |-> t] : t \in Texts }

-----------------------------------------------------------------------------
(* generateSpecMetadata *)

\* the `retries = 3` default of fetchWithRetry, used by generateSpecMetadata
DefaultRetries == 3

\* "Gemini API Key가 설정되지 않았습니다. .env.local 파일을 확인해주세요."
MissingKeyMessage == "Gemini API Key is not set. Check the .env.local file."
\* "API 응답에서 내용이 누락되었습니다."
ContentMissingMessage == "The API response has no content."
\* the SyntaxError of response.json() and of JSON.parse
JsonSyntaxMessage == "Unexpected token in JSON"
\* the TypeError of reading a property of null or undefined
NullPropertyMessage == "Cannot read properties of null"

\* The catch block rethrowing the error as it came.
WrapMessageRaw(message) == message

\* throw new Error(`AI 분석 실패: ${e.message}`)   (AI analysis failed)
WrapMessage(message) == "AI analysis failed: " \o message

\* The call going on to the network whether or not there is a key.
MetadataCallStartNoKeyCheck(key) == "fetching"

\* The entry of generateSpecMetadata:
\*   if (!apiKey && !process.env.NEXT_PUBLIC_GEMINI_API_KEY) throw new Error(...)
\* stands before the try block; with a key the call goes on to fetchWithRetry,
\* whose loop issues the first fetch.
MetadataCallStart(key) == IF ~key THEN "thrown" ELSE "fetching"

NoResult == [kind |-> "none", summary |-> JUndefined, keywords |-> JUndefined, message |-> ""]
MetaReturn(summary, keywords) ==
    [kind |-> "value", summary |-> summary, keywords |-> keywords, message |-> ""]
MetaThrow(message) ==
    [kind |-> "error", summary |-> JUndefined, keywords |-> JUndefined, message |-> message]

\* return { summary: parsedData.summary || "요약 생성 실패",
\*          keywords: Array.isArray(parsedData.keywords) ? parsedData.keywords : [] };
MetadataFrom(parsedData) ==
    MetaReturn(JsOr(PropSummary(parsedData), JStr(SummaryFallback)),
               IF IsArray(PropKeywords(parsedData)) THEN PropKeywords(parsedData)
               ELSE JArr(<<>>))

\* The body of the try block of generateSpecMetadata after fetchWithRetry has
\* returned an ok response, and the catch block around it:
\*   const result = await response.json();
\*   const jsonText = result.candidates?.[0]?.content?.parts?.[0]?.text;
\*   if (!jsonText) throw new Error("API 응답에서 내용이 누락되었습니다.");
\*   const parsedData = JSON.parse(jsonText);
\*   return {...};
\*   } catch (e) { throw new Error(`AI 분석 실패: ${e.message}`); }
MetadataFromBody(body) ==
    CASE body.kind = "notjson" -> MetaThrow(WrapMessage(JsonSyntaxMessage))
      [] body.kind = "null" -> MetaThrow(WrapMessage(NullPropertyMessage))
      [] body.kind = "notext" -> MetaThrow(WrapMessage(ContentMissingMessage))
      [] body.text.empty -> MetaThrow(WrapMessage(ContentMissingMessage))
      [] ~body.text.parses -> MetaThrow(WrapMessage(JsonSyntaxMessage))
      [] body.text.value.kind = "null" -> MetaThrow(WrapMessage(NullPropertyMessage))
      [] OTHER -> MetadataFrom(body.text.value)

\* fetchWithRetry threw, or (were its loop to end) returned undefined, of
\* which response.json() cannot be read: the catch block wraps the error.
MetadataFromFetchFailure(pc, result) ==
    IF pc = "thrown" THEN MetaThrow(WrapMessage(result.message))
    ELSE MetaThrow(WrapMessage(NullPropertyMessage))

-----------------------------------------------------------------------------
(* Strings *)

\* s.lastIndexOf(c), 1-based, 0 when c does not occur in s
LastIndexOf(s, c) ==
    IF \E k \in 1..Len(s) : s[k] = c
    THEN CHOOSE k \in 1..Len(s) : s[k] = c /\ \A m \in (k + 1)..Len(s) : s[m] # c
    ELSE 0

\* String.prototype.toUpperCase, on the letters the model uses
UpperChar(c) ==
    CASE c = "a" -> "A" [] c = "b" -> "B" [] c = "d" -> "D" [] c = "f" -> "F"
      [] c = "l" -> "L" [] c = "p" -> "P" [] c = "s" -> "S" [] c = "x" -> "X"
      [] OTHER -> c
ToUpperCase(s) == [k \in 1..Len(s) |-> UpperChar(s[k])]

-----------------------------------------------------------------------------
(* SpecUploadModal: the queue items *)

\* The files the user can pick: a.pdf picked alone, b.xls picked in folder d.
Files ==
    { [name |-> <<"a", ".", "p", "d", "f">>, webkitRelativePath |-> <<>>],
      [name |-> <<"b", ".", "x", "l", "s">>,
       webkitRelativePath |-> <<"d", "/", "b", ".", "x", "l", "s">>] }

\* What the user types into the hint textarea.
Hints == { <<>>, <<"h">> }

\* const parts = file.name.split('.');
\* const fileType = parts.length > 1 ? parts.pop().toUpperCase() : 'N/A';
FileTypeOf(name) ==
    IF LastIndexOf(name, ".") = 0 THEN <<"N", "/", "A">>
    ELSE ToUpperCase(SubSeq(name, LastIndexOf(name, ".") + 1, Len(name)))

\* let filePath = ''; if (file.webkitRelativePath) {
\*   filePath = file.webkitRelativePath.split('/').slice(0, -1).join('/'); }
FilePathOf(file) ==
    IF file.webkitRelativePath = <<>> THEN <<>>
    ELSE SubSeq(file.webkitRelativePath, 1, LastIndexOf(file.webkitRelativePath, "/") - 1)

\* { ...initialItem, id: crypto.randomUUID(), fileName, filePath, fileType }
NewItem(id, file) ==
    [ id |-> id,
      fileName |-> file.name,
      filePath |-> FilePathOf(file),
      fileType |-> FileTypeOf(file.name),
      mockContent |-> <<>>,
      status |-> "pending",
      summary |-> JStr(<<>>),
      keywords |-> JArr(<<>>),
      error |-> "" ]

\* newSpecs: files.map(file => ...), the ids taken from firstId on
RECURSIVE NewSpecs(_, _)
NewSpecs(files, firstId) ==
    IF files = <<>> THEN <<>>
    ELSE <<NewItem(firstId, Head(files))>> \o NewSpecs(Tail(files), firstId + 1)

SeqRange(q) == { q[k] : k \in 1..Len(q) }

\* the status filter that lets everything but a pending item through
IsAnalyzedItemNotPending(item) == item.status # "pending"

\* item => item.status === 'analyzed'
\* (analyzedCount, handleSave's specsToSave, handleSaveAnalyzedSpecs' filter)
IsAnalyzedItem(item) == item.status = "analyzed"

\* The page-level error notice: none, or the notice of a failed save.
NoError == [kind |-> "none", files |-> <<>>]

NoSaving == [active |-> FALSE, pending |-> {}, failed |-> <<>>, skipped |-> 0]

\* the remote variants do not use localStorage
NoStorage == [kind |-> "absent", text |-> NoText]
NoOp == [op |-> "none", id |-> 0, from |-> "none", attempts |-> 0, value |-> <<>>, files |-> <<>>]

\* The sign-in has succeeded within the 5 s of the timer: handleAuthResult(user)
\* has run, and the effect of the render that followed has attached the
\* snapshot listener, whose callback closed over that render's error ''.
\* (The local variant has none of this; its specification keeps these values.)
AuthDone ==
    /\ isAuthReady = TRUE
    /\ userId = "uid"
    /\ authPc = "done"
    /\ timeoutId = "pending"
    /\ listener = [attached |-> TRUE, error |-> NoError]

\* The page with authentication done, the snapshot listener attached, the
\* catalog empty and the upload dialog closed.
PageRest ==
    /\ modalOpen = FALSE
    /\ uploadQueue = <<>>
    /\ isAnalyzing = FALSE
    /\ tasks = {}
    /\ nextId = 1
    /\ loading = FALSE
    /\ error = NoError
    /\ specs = <<>>
    /\ db = <<>>
    /\ saving = NoSaving
    /\ searchTerm = <<>>
    /\ deleting = {}
    /\ stored = NoStorage
    /\ now = 0
    /\ mounted = "yes"
    /\ AuthDone
    /\ lastOp = NoOp

\* The page left alone (in the specifications of single calls).
PageIdle == apiKey = TRUE /\ PageRest

-----------------------------------------------------------------------------
(* Specification SpecFetch: one call fetchWithRetry(url, options, retries) *)

\* The call starts: i = 0, and the first fetch is issued by FetchAttempt.
\* The only call site passes no `retries`, so it is 3 there; the argument
\* ranges over 1..MaxRetries here.
InitFetch ==
    /\ fRetries \in 1..MaxRetries
    /\ fI = 0
    /\ fPc = "fetch"
    /\ fAttempts = 0
    /\ fHist = <<>>
    /\ fResult = NoValue
    /\ fDelays = <<>>
    /\ mKey = TRUE
    /\ mPc = "none"
    /\ mBody = NoBody
    /\ mResult = NoResult
    /\ PageIdle

\* await fetch(url, options) answers `answer`; the rest of the iteration runs.
FetchAttempt(answer) ==
    /\ fPc = "fetch"
    /\ fAttempts' = fAttempts + 1
    /\ fHist' = Append(fHist, answer)
    /\ LET step == FetchIteration(fI, fRetries, answer) IN
        CASE step.do = "return" ->
                /\ fPc' = "returned"
                /\ fResult' = Returned(answer)
                /\ UNCHANGED <<fI, fDelays>>
          [] step.do = "sleep" ->
                /\ \E jitter \in Jitters :
                        fDelays' = Append(fDelays, BackoffDelay(fI, jitter))
                /\ fPc' = "sleep"
                /\ UNCHANGED <<fI, fResult>>
          [] step.do = "next" ->
                /\ fI' = fI + 1
                /\ fPc' = LoopNext(fI, fRetries)
                /\ UNCHANGED <<fResult, fDelays>>
          [] step.do = "throw" ->
                /\ fPc' = "thrown"
                /\ fResult' = Thrown(step.message)
                /\ UNCHANGED <<fI, fDelays>>
    /\ UNCHANGED <<fRetries, metaVars, pageVars>>

\* The setTimeout of the backoff fires; `continue` runs i++ and the loop test.
SleepDone ==
    /\ fPc = "sleep"
    /\ fI' = fI + 1
    /\ fPc' = LoopNext(fI, fRetries)
    /\ UNCHANGED <<fRetries, fAttempts, fHist, fResult, fDelays, metaVars, pageVars>>

NextFetch ==
    \/ \E answer \in FetchAnswers : FetchAttempt(answer)
    \/ SleepDone

SpecFetch == InitFetch /\ [][NextFetch]_vars

FetchFinished == fPc \in {"returned", "thrown", "fellthrough"}

RateLimited(answer) == answer.kind = "response" /\ answer.status = 429

AllRateLimited(h) == \A j \in 1..Len(h) : RateLimited(h[j])

\* C1: k consecutive 429 answers followed by one ok answer, k < retries, make
\* the call return that ok response; 429 on every attempt makes the call
\* throw after exactly `retries` calls of fetch, no more and no fewer.
C1_RetryPolicy ==
    /\ fAttempts = Len(fHist)
    /\ fAttempts <= fRetries
    /\ (/\ fHist # <<>>
        /\ AllRateLimited(SubSeq(fHist, 1, Len(fHist) - 1))
        /\ fHist[Len(fHist)].kind = "response"
        /\ ResponseOk(fHist[Len(fHist)]))
            => /\ fPc = "returned"
               /\ fResult = Returned(fHist[Len(fHist)])
    /\ AllRateLimited(fHist) =>
            /\ FetchFinished => (fPc = "thrown" /\ fAttempts = fRetries)
            /\ fAttempts = fRetries => fPc = "thrown"
            /\ fPc = "thrown" => fResult = Thrown(HttpErrorMessage(429))

\* Two 429 answers, then an ok answer on the third and last attempt.
C1_Witness ==
    /\ fRetries = 3
    /\ Len(fHist) = 3
    /\ RateLimited(fHist[1]) /\ RateLimited(fHist[2])
    /\ fHist[3].kind = "response" /\ ResponseOk(fHist[3])
    /\ fPc = "returned"

\* C2 (as claimed): a non-ok answer whose status is not 429 makes the call
\* throw at once, on any attempt, with the error naming that status, and no
\* further fetch is issued.
C2_NonRateLimitFailureRaisesAtOnce ==
    \A j \in 1..Len(fHist) :
        (/\ fHist[j].kind = "response"
         /\ ~ResponseOk(fHist[j])
         /\ fHist[j].status # 429)
            => /\ fPc = "thrown"
               /\ fResult = Thrown(HttpErrorMessage(fHist[j].status))
               /\ Len(fHist) = j

-----------------------------------------------------------------------------
(* Specification SpecMeta: one call generateSpecMetadata(fileName, content) *)

InitMeta ==
    /\ fRetries = DefaultRetries
    /\ fI = 0
    /\ fPc = "idle"
    /\ fAttempts = 0
    /\ fHist = <<>>
    /\ fResult = NoValue
    /\ fDelays = <<>>
    /\ mKey \in BOOLEAN
    /\ mPc = "call"
    /\ mBody = NoBody
    /\ mResult = NoResult
    /\ PageIdle

\* The call starts.
MetaCall ==
    /\ mPc = "call"
    /\ mPc' = MetadataCallStart(mKey)
    /\ IF MetadataCallStart(mKey) = "thrown"
       THEN /\ mResult' = MetaThrow(MissingKeyMessage)
            /\ UNCHANGED fPc
       ELSE /\ fPc' = "fetch"
            /\ UNCHANGED mResult
    /\ UNCHANGED <<fRetries, fI, fAttempts, fHist, fResult, fDelays, mKey, mBody, pageVars>>

\* fetchWithRetry returned the ok response; its body arrives.
MetaBody(body) ==
    /\ mPc = "fetching"
    /\ fPc = "returned"
    /\ mBody' = body
    /\ mResult' = MetadataFromBody(body)
    /\ mPc' = IF MetadataFromBody(body).kind = "value" THEN "returned" ELSE "thrown"
    /\ UNCHANGED <<fetchVars, mKey, pageVars>>

\* fetchWithRetry did not return a response.
MetaFetchFailed ==
    /\ mPc = "fetching"
    /\ fPc \in {"thrown", "fellthrough"}
    /\ mResult' = MetadataFromFetchFailure(fPc, fResult)
    /\ mPc' = "thrown"
    /\ UNCHANGED <<fetchVars, mKey, mBody, pageVars>>

NextMeta ==
    \/ MetaCall
    \/ \E answer \in FetchAnswers : FetchAttempt(answer)
    \/ SleepDone
    \/ \E body \in Bodies : MetaBody(body)
    \/ MetaFetchFailed

SpecMeta == InitMeta /\ [][NextMeta]_vars

MetaFailed == mPc = "thrown"

\* The uniform form: "AI 분석 실패: <cause>".
HasAnalysisFailedForm(message, cause) == message = "AI analysis failed: " \o cause

FailureCauses ==
    { MissingKeyMessage, FailedToFetch, ContentMissingMessage, JsonSyntaxMessage,
      NullPropertyMessage } \cup { HttpErrorMessage(s) : s \in Statuses }

\* What went wrong in a failed call that had a key, read off the answers of
\* the endpoint.
UnderlyingCause ==
    CASE fPc = "thrown" /\ fHist[Len(fHist)].kind = "reject" -> FailedToFetch
      [] fPc = "thrown" -> HttpErrorMessage(fHist[Len(fHist)].status)
      [] mBody.kind \in {"notjson"} -> JsonSyntaxMessage
      [] mBody.kind = "null" -> NullPropertyMessage
      [] mBody.kind = "notext" -> ContentMissingMessage
      [] mBody.text.empty -> ContentMissingMessage
      [] ~mBody.text.parses -> JsonSyntaxMessage
      [] OTHER -> NullPropertyMessage

\* C7 (as claimed): every failure of generateSpecMetadata, the missing API
\* key included, reaches the caller as an error of the form
\* "AI 분석 실패: <cause>".
C7_EveryFailureIsWrapped ==
    MetaFailed => \E cause \in FailureCauses : HasAnalysisFailedForm(mResult.message, cause)

\* C7 (amended): every failure of a call that has an API key (HTTP failure,
\* transport failure, unreadable body, missing content, malformed JSON, null
\* payload) reaches the caller in the form "AI 분석 실패: <cause>" with the
\* underlying cause, and only a call with such a failure fails; the missing
\* key is thrown before the try block, with its own message and unwrapped.
C7_FailuresAfterKeyCheckAreWrapped ==
    /\ (MetaFailed /\ mKey) => HasAnalysisFailedForm(mResult.message, UnderlyingCause)
    /\ (MetaFailed /\ ~mKey) => mResult.message = MissingKeyMessage
    /\ (mPc = "fetching" /\ fPc = "thrown") => ENABLED MetaFetchFailed
    /\ mPc = "returned" =>
            /\ fPc = "returned"
            /\ mBody.kind = "text" /\ mBody.text.parses
            /\ mBody.text.value.kind # "null"

\* A 500 on the last attempt, wrapped.
C7_Witness ==
    /\ MetaFailed /\ mKey
    /\ fPc = "thrown"
    /\ fHist[Len(fHist)] = [kind |-> "response", status |-> 500]
    /\ mResult.message = "AI analysis failed: HTTP error! status: 500"

\* C9 (as claimed): whatever the text payload parses to, a call that returns
\* returns keywords that is an array and a summary that is a non-empty string
\* or the fallback "요약 생성 실패".
C9_ResultShape ==
    mPc = "returned" =>
        /\ IsArray(mResult.keywords)
        /\ \/ mResult.summary.kind = "string" /\ mResult.summary.val # <<>>
           \/ mResult.summary = JStr(SummaryFallback)

-----------------------------------------------------------------------------
(* Specification Spec: the page with its upload dialog (src/app/page.jsx) *)

\* ids crypto.randomUUID() hands out before the model stops adding files
MaxIds == 2
\* documents in the collection before the model stops saving
MaxDocs == 2

\* Non-empty selections of distinct files, as the file input delivers them.
FileSelections ==
    { <<f>> : f \in Files } \cup
    { <<pair[1], pair[2]>> : pair \in { p \in Files \X Files : p[1] # p[2] } }

\* The answers of fetch tried on the page: ok, rate limited, server error.
QueueAnswers ==
    { [kind |-> "response", status |-> st] : st \in {200, 429, 500} }

\* The bodies of ok responses tried on the page: no text, a well-formed
\* payload, a payload with an empty summary and keywords that is no array.
QueueBodies ==
    { [kind |-> "notext", text |-> NoText],
      [kind |-> "text", text |-> [empty |-> FALSE, parses |-> TRUE,
            value |-> JObj(JStr(<<"s">>), JArr(<<JStr(<<"k">>)>>))]],
      [kind |-> "text", text |-> [empty |-> FALSE, parses |-> TRUE,
            value |-> JObj(JStr(<<>>), JNull)]] }

InitPage ==
    /\ apiKey \in BOOLEAN
    /\ PageRest
    /\ fRetries = DefaultRetries
    /\ fI = 0
    /\ fPc = "idle"
    /\ fAttempts = 0
    /\ fHist = <<>>
    /\ fResult = NoValue
    /\ fDelays = <<>>
    /\ mKey = apiKey
    /\ mPc = "none"
    /\ mBody = NoBody
    /\ mResult = NoResult

ItemIds(q) == { q[k].id : k \in 1..Len(q) }
ItemById(q, id) == q[CHOOSE k \in 1..Len(q) : q[k].id = id]

\* A promise of generateSpecMetadata rejected before its first await has its
\* catch continuation queued as a microtask: it runs before any event handler,
\* timer or network callback.
NoMicrotask == \A t \in tasks : t.pc # "thrown"

\* ForgingSpecManager renders again (one of its states changed). The
\* components SpecUploadModal and Modal are defined inside its body, so the
\* element <SpecUploadModal /> has a new type on every such render and React
\* mounts it afresh: useState([]) and useState(false) start over, and the
\* state updates of calls still in flight go to the unmounted instance.
ModalFresh ==
    /\ uploadQueue' = <<>>
    /\ isAnalyzing' = FALSE
    /\ tasks' = {}

\* the page's actions leave the variables of the two function-level
\* specifications alone
FunctionsIdle == UNCHANGED <<fetchVars, metaVars>>

Op(name, id, from, attempts, value) ==
    [op |-> name, id |-> id, from |-> from, attempts |-> attempts, value |-> value,
     files |-> <<>>]

\* onClick={() => setModal({ isOpen: true, type: 'upload', data: null })}
\* disabled={!!globalInitError || !isAuthReady || loading}
OpenModal ==
    /\ ~modalOpen
    /\ ~loading
    /\ modalOpen' = TRUE
    /\ ModalFresh
    /\ lastOp' = Op("OpenModal", 0, "none", 0, <<>>)
    /\ UNCHANGED <<apiKey, searchTerm, deleting, localVars, authVars, nextId, loading, error, specs, db, saving>>
    /\ FunctionsIdle

\* Modal's close button: setModal({ isOpen: false, type: '', data: null })
CloseModal ==
    /\ modalOpen
    /\ NoMicrotask
    /\ modalOpen' = FALSE
    /\ ModalFresh
    /\ lastOp' = Op("CloseModal", 0, "none", 0, <<>>)
    /\ UNCHANGED <<apiKey, searchTerm, deleting, localVars, authVars, nextId, loading, error, specs, db, saving>>
    /\ FunctionsIdle

\* handleFileSelect: the new items, without those whose filePath + fileName
\* is already queued, are appended.
handleFileSelect(files) ==
    /\ modalOpen
    /\ NoMicrotask
    /\ files # <<>>
    /\ nextId + Len(files) - 1 <= MaxIds
    /\ LET newSpecs == NewSpecs(files, nextId)
           currentIdentifiers ==
               { item.filePath \o item.fileName : item \in SeqRange(uploadQueue) }
           uniqueNewSpecs ==
               SelectSeq(newSpecs,
                         LAMBDA spec : (spec.filePath \o spec.fileName) \notin currentIdentifiers)
       IN uploadQueue' = uploadQueue \o uniqueNewSpecs
    /\ nextId' = nextId + Len(files)
    /\ lastOp' = [Op("handleFileSelect", 0, "none", 0, <<>>) EXCEPT !.files = files]
    /\ UNCHANGED <<apiKey, searchTerm, deleting, localVars, authVars, modalOpen, isAnalyzing, tasks, loading, error, specs, db, saving>>
    /\ FunctionsIdle

\* handleRemoveItem and handleInputChange call setUploadQueue(newQueue) with
\* a queue computed from the `uploadQueue` of the last render. The updaters
\* that analyses settled since that render have queued (calls with pc =
\* "settled": React renders them in a later task) are applied before the new
\* queue replaces the state, so their outcomes are lost;
\* setIsAnalyzing(false), queued with the last of them, is not.
OverwritesSettled ==
    /\ tasks' = { t \in tasks : t.pc # "settled" }
    /\ isAnalyzing' = IF tasks # {} /\ (\A t \in tasks : t.pc = "settled")
                      THEN FALSE ELSE isAnalyzing

\* handleRemoveItem; UploadItem shows the button only when index > 0.
handleRemoveItem(id) ==
    /\ modalOpen
    /\ NoMicrotask
    /\ \E k \in 2..Len(uploadQueue) : uploadQueue[k].id = id
    /\ lastOp' = Op("handleRemoveItem", id, ItemById(uploadQueue, id).status, 0, <<>>)
    /\ uploadQueue' = SelectSeq(uploadQueue, LAMBDA item : item.id # id)
    /\ OverwritesSettled
    /\ UNCHANGED <<apiKey, searchTerm, deleting, localVars, authVars, modalOpen, nextId, loading, error, specs, db, saving>>
    /\ FunctionsIdle

\* the textarea that is never disabled for an item with a file
HintEditableWhileAnalyzing(item) == item.fileName # <<>>

\* the textarea: disabled={isCurrentAnalyzing || !item.fileName}
HintEditable(item) == item.status # "analyzing" /\ item.fileName # <<>>

\* the reset that keeps the results of the analysis
ResetItemKeepsResults(item, value) ==
    [item EXCEPT !.mockContent = value, !.status = "pending"]

\* { ...item, [field]: value, status: 'pending', summary: '', keywords: [], error: '' }
\* with field = 'mockContent', the only field the textarea passes
ResetItem(item, value) ==
    [item EXCEPT !.mockContent = value, !.status = "pending",
                 !.summary = JStr(<<>>), !.keywords = JArr(<<>>), !.error = ""]

\* handleInputChange(id, 'mockContent', value), from the textarea's onChange
handleInputChange(id, value) ==
    /\ modalOpen
    /\ NoMicrotask
    /\ id \in ItemIds(uploadQueue)
    /\ HintEditable(ItemById(uploadQueue, id))
    /\ value # ItemById(uploadQueue, id).mockContent
    /\ uploadQueue' =
            [k \in 1..Len(uploadQueue) |->
                IF uploadQueue[k].id = id THEN ResetItem(uploadQueue[k], value)
                ELSE uploadQueue[k]]
    /\ lastOp' = Op("handleInputChange", id, ItemById(uploadQueue, id).status, 0, value)
    /\ OverwritesSettled
    /\ UNCHANGED <<apiKey, searchTerm, deleting, localVars, authVars, modalOpen, nextId, loading, error, specs, db, saving>>
    /\ FunctionsIdle

\* prev.map(q => q.id === id ? { ...q, status: 'analyzing', error: '' } : q)
MarkAnalyzing(q, id) ==
    [k \in 1..Len(q) |->
        IF q[k].id = id THEN [q[k] EXCEPT !.status = "analyzing", !.error = ""] ELSE q[k]]

\* prev.map(q => q.id === id ? { ...q, summary, keywords, status: 'analyzed' } : q)
MarkAnalyzed(q, id, summary, keywords) ==
    [k \in 1..Len(q) |->
        IF q[k].id = id
        THEN [q[k] EXCEPT !.summary = summary, !.keywords = keywords, !.status = "analyzed"]
        ELSE q[k]]

\* the update that marks every item of the queue failed
MarkErrorAll(q, id, message) ==
    [k \in 1..Len(q) |-> [q[k] EXCEPT !.status = "error", !.error = message]]

\* prev.map(q => q.id === id ? { ...q, status: 'error', error: e.message } : q)
MarkError(q, id, message) ==
    [k \in 1..Len(q) |->
        IF q[k].id = id THEN [q[k] EXCEPT !.status = "error", !.error = message] ELSE q[k]]

\* The synchronous part of analyzeAndSetQueue(id, item): the call of
\* generateSpecMetadata either throws at its key check or awaits fetch.
StartTask(id) ==
    [ id |-> id,
      pc |-> IF MetadataCallStart(apiKey) = "thrown" THEN "thrown" ELSE "fetch",
      i |-> 0,
      attempts |-> 0,
      result |-> NoResult ]

\* the analyze button of an item:
\* disabled={!isReadyForAnalysis || isCurrentAnalyzing || isAnalyzing}
\* handleAnalyzeItem: setIsAnalyzing(true); analyzeAndSetQueue(id, item)
handleAnalyzeItem(id) ==
    /\ modalOpen
    /\ NoMicrotask
    /\ id \in ItemIds(uploadQueue)
    /\ ItemById(uploadQueue, id).fileName # <<>>
    /\ ItemById(uploadQueue, id).status # "analyzing"
    /\ ~isAnalyzing
    /\ isAnalyzing' = TRUE
    /\ uploadQueue' = MarkAnalyzing(uploadQueue, id)
    /\ tasks' = tasks \cup {StartTask(id)}
    /\ lastOp' = Op("handleAnalyzeItem", id, ItemById(uploadQueue, id).status, 0, <<>>)
    /\ UNCHANGED <<apiKey, searchTerm, deleting, localVars, authVars, modalOpen, nextId, loading, error, specs, db, saving>>
    /\ FunctionsIdle

\* the filter that takes every item not being analyzed
ToAnalyzeAlsoAnalyzed(item) == item.fileName # <<>> /\ item.status # "analyzing"

\* item => item.fileName && (item.status === 'pending' || item.status === 'error')
ToAnalyze(item) == item.fileName # <<>> /\ item.status \in {"pending", "error"}

RECURSIVE MarkAnalyzingAll(_, _)
\* itemsToAnalyze.map(item => analyzeAndSetQueue(item.id, item)): the
\* setUploadQueue updaters of the calls, applied in order
MarkAnalyzingAll(q, items) ==
    IF items = <<>> THEN q
    ELSE MarkAnalyzingAll(MarkAnalyzing(q, Head(items).id), Tail(items))

\* What handleAnalyzeAll does to the dialog's state (queue q, busy flag,
\* calls in flight): nothing when itemsToAnalyze is empty; otherwise
\* setIsAnalyzing(true) and one analyzeAndSetQueue per item of itemsToAnalyze.
AnalyzeAllResult(q, busy, calls) ==
    LET itemsToAnalyze == SelectSeq(q, ToAnalyze) IN
        IF Len(itemsToAnalyze) = 0
        THEN [queue |-> q, isAnalyzing |-> busy, tasks |-> calls]
        ELSE [queue |-> MarkAnalyzingAll(q, itemsToAnalyze),
              isAnalyzing |-> TRUE,
              tasks |-> calls \cup { StartTask(item.id) : item \in SeqRange(itemsToAnalyze) }]

\* the "analyze all" button: shown when the queue is not empty,
\* disabled={isAnalyzing || analyzedCount === uploadQueue.length}
handleAnalyzeAll ==
    /\ modalOpen
    /\ NoMicrotask
    /\ Len(uploadQueue) > 0
    /\ ~isAnalyzing
    /\ Len(SelectSeq(uploadQueue, IsAnalyzedItem)) # Len(uploadQueue)
    /\ LET r == AnalyzeAllResult(uploadQueue, isAnalyzing, tasks) IN
        /\ uploadQueue' = r.queue
        /\ isAnalyzing' = r.isAnalyzing
        /\ tasks' = r.tasks
    /\ lastOp' = Op("handleAnalyzeAll", 0, "none", 0, <<>>)
    /\ UNCHANGED <<apiKey, searchTerm, deleting, localVars, authVars, modalOpen, nextId, loading, error, specs, db, saving>>
    /\ FunctionsIdle

\* .finally(...) of the one call of handleAnalyzeItem, or the end of
\* await Promise.all(analysisPromises) in handleAnalyzeAll: the call t that
\* settles is the last one in flight (the buttons that start calls are
\* disabled while isAnalyzing, so the calls in flight are those of one start)
LastOfCall(calls, t) == calls \ {t} = {}

\* The rest of analyzeAndSetQueue once generateSpecMetadata has settled with
\* `result`, and what follows in the same turn: .finally(() =>
\* setIsAnalyzing(false)) of handleAnalyzeItem, or, after the last call of a
\* batch, the end of await Promise.all(...) and setIsAnalyzing(false).
TaskSettles(t, attempts, result) ==
    /\ uploadQueue' =
            IF result.kind = "value"
            THEN MarkAnalyzed(uploadQueue, t.id, result.summary, result.keywords)
            ELSE MarkError(uploadQueue, t.id, result.message)
    /\ tasks' = tasks \ {t}
    /\ isAnalyzing' = IF LastOfCall(tasks, t) THEN FALSE ELSE isAnalyzing
    /\ lastOp' = Op(IF result.kind = "value" THEN "analysisSucceeded" ELSE "analysisFailed",
                    t.id,
                    IF t.id \in ItemIds(uploadQueue) THEN ItemById(uploadQueue, t.id).status
                    ELSE "absent",
                    attempts, <<>>)

\* the loop of fetchWithRetry goes on to its next iteration, or ends
TaskLoops(t, attempts) ==
    IF LoopNext(t.i, DefaultRetries) = "fetch"
    THEN /\ tasks' = (tasks \ {t}) \cup
                {[t EXCEPT !.pc = "fetch", !.i = t.i + 1, !.attempts = attempts]}
         /\ UNCHANGED <<uploadQueue, isAnalyzing, lastOp>>
    ELSE TaskSettles(t, attempts, MetadataFromFetchFailure("fellthrough", NoValue))

\* the catch continuation of a call rejected at the key check
TaskThrown(t) ==
    /\ t.pc = "thrown"
    /\ TaskSettles(t, t.attempts, MetaThrow(MissingKeyMessage))
    /\ UNCHANGED <<apiKey, searchTerm, deleting, localVars, authVars, modalOpen, nextId, loading, error, specs, db, saving>>
    /\ FunctionsIdle

\* fetch answers a call's attempt
TaskFetchAnswer(t, answer) ==
    /\ t.pc = "fetch"
    /\ NoMicrotask
    /\ LET step == FetchIteration(t.i, DefaultRetries, answer) IN
        CASE step.do = "return" ->
                /\ tasks' = (tasks \ {t}) \cup
                        {[t EXCEPT !.pc = "body", !.attempts = t.attempts + 1]}
                /\ UNCHANGED <<uploadQueue, isAnalyzing, lastOp>>
          [] step.do = "sleep" ->
                /\ tasks' = (tasks \ {t}) \cup
                        {[t EXCEPT !.pc = "sleep", !.attempts = t.attempts + 1]}
                /\ UNCHANGED <<uploadQueue, isAnalyzing, lastOp>>
          [] step.do = "next" -> TaskLoops(t, t.attempts + 1)
          [] step.do = "throw" ->
                TaskSettles(t, t.attempts + 1,
                            MetadataFromFetchFailure("thrown", Thrown(step.message)))
    /\ UNCHANGED <<apiKey, searchTerm, deleting, localVars, authVars, modalOpen, nextId, loading, error, specs, db, saving>>
    /\ FunctionsIdle

\* a call's backoff timer fires
TaskSleepDone(t) ==
    /\ t.pc = "sleep"
    /\ NoMicrotask
    /\ TaskLoops(t, t.attempts)
    /\ UNCHANGED <<apiKey, searchTerm, deleting, localVars, authVars, modalOpen, nextId, loading, error, specs, db, saving>>
    /\ FunctionsIdle

\* the body of a call's ok response arrives
TaskBody(t, body) ==
    /\ t.pc = "body"
    /\ NoMicrotask
    /\ TaskSettles(t, t.attempts, MetadataFromBody(body))
    /\ UNCHANGED <<apiKey, searchTerm, deleting, localVars, authVars, modalOpen, nextId, loading, error, specs, db, saving>>
    /\ FunctionsIdle

\* addDoc(specCollectionRef, { fileName, fileType, downloadLink, summary,
\* keywords, userId, createdAt: serverTimestamp() }) as the document the
\* collection holds (the random suffix of downloadLink left out); srcId,
\* srcStatus and skipped are history: the queue item
\* the document was made from, the status it had, and how many items of the
\* queue the save left out.
NewDoc(spec, docId, skipped) ==
    [ id |-> docId,
      fileName |-> spec.fileName,
      fileType |-> spec.fileType,
      downloadLink |-> "#mock-link",
      summary |-> spec.summary,
      keywords |-> spec.keywords,
      createdAt |-> docId,
      srcId |-> spec.id,
      srcStatus |-> spec.status,
      skipped |-> skipped ]

\* the notice that names the first failed file only
SaveErrorFirstOnly(failed, err) ==
    IF failed # <<>> THEN [kind |-> "saveFailed", files |-> <<Head(failed)>>] ELSE err

\* if (saveError) setError("일부 문서 저장에 실패했습니다. 콘솔을 확인하세요." + saveError):
\* saveError holds one line `[fileName] 저장 실패: ...` per failed addDoc, so
\* the notice is kept as the list of the failed files' names; with no
\* failure the error `err` of the page stays as it is
SaveErrorAfter(failed, err) ==
    IF failed # <<>> THEN [kind |-> "saveFailed", files |-> failed] ELSE err

\* the end of handleSaveAnalyzedSpecs, after await Promise.all(savePromises)
SaveEnds(failed) ==
    /\ loading' = FALSE
    /\ modalOpen' = FALSE
    /\ ModalFresh
    /\ error' = SaveErrorAfter(failed, error)
    /\ saving' = NoSaving

\* "인증 또는 데이터베이스 연결이 준비되지 않았습니다. 잠시 후 재시도하세요."
NotReadyError == [kind |-> "notReady", files |-> <<>>]

\* The start of handleSaveAnalyzedSpecs(specsToSave) with the user id `uid`
\* and the Firestore handle there or not:
\*   if (!userId || !db) { setError(...); return; }
\*   setLoading(true); one addDoc per item of specsToSave that is analyzed
\* closesDialog: whether the call goes on to its setModal({ isOpen: false })
CommitStart(uid, hasDb, specsToSave) ==
    IF uid = "null" \/ ~hasDb
    THEN [refused |-> TRUE, toAdd |-> {}, error |-> NotReadyError, loading |-> FALSE,
          closesDialog |-> FALSE]
    ELSE [refused |-> FALSE, toAdd |-> SeqRange(SelectSeq(specsToSave, IsAnalyzedItem)),
          error |-> NoError, loading |-> TRUE, closesDialog |-> TRUE]

\* the submit button: disabled={!canSave || loading || isAnalyzing}
\* handleSave: specsToSave = uploadQueue.filter(analyzed); none: alert, return;
\* handleSaveAnalyzedSpecs(specsToSave): refused without userId or db (the
\* handle db is a constant of the module once Firebase is initialized);
\* else setLoading(true) and one addDoc per analyzed item.
handleSave ==
    /\ modalOpen
    /\ NoMicrotask
    /\ Len(SelectSeq(uploadQueue, IsAnalyzedItem)) > 0
    /\ ~loading
    /\ ~isAnalyzing
    /\ Len(db) + Len(SelectSeq(uploadQueue, IsAnalyzedItem)) <= MaxDocs
    /\ LET specsToSave == SelectSeq(uploadQueue, IsAnalyzedItem)
           commit == CommitStart(userId, TRUE, specsToSave)
           toAdd == commit.toAdd
       IN IF Len(specsToSave) = 0
          THEN UNCHANGED <<modalOpen, modalVars, loading, error, saving>>
          ELSE IF commit.refused
          THEN /\ error' = commit.error
               /\ modalOpen' = (modalOpen /\ ~commit.closesDialog)
               /\ ModalFresh
               /\ UNCHANGED <<loading, saving>>
          ELSE IF toAdd = {}
          THEN SaveEnds(<<>>)
          ELSE /\ loading' = TRUE
               /\ saving' = [active |-> TRUE, pending |-> toAdd, failed |-> <<>>,
                           skipped |-> Len(uploadQueue) - Cardinality(toAdd)]
               /\ ModalFresh
               /\ UNCHANGED <<modalOpen, error>>
    /\ lastOp' = Op("handleSave", 0, "none", 0, <<>>)
    /\ UNCHANGED <<apiKey, searchTerm, deleting, localVars, authVars, nextId, specs, db>>
    /\ FunctionsIdle

\* one addDoc settles: the document is in the collection, or the catch block
\* adds the file to saveError; after the last one the save ends
AddDocSettles(spec, ok) ==
    /\ saving.active
    /\ NoMicrotask
    /\ spec \in saving.pending
    /\ db' = IF ok THEN Append(db, NewDoc(spec, Len(db) + 1, saving.skipped)) ELSE db
    /\ LET failed == IF ok THEN saving.failed ELSE Append(saving.failed, spec.fileName) IN
        IF saving.pending \ {spec} = {}
        THEN SaveEnds(failed)
        ELSE /\ saving' = [saving EXCEPT !.pending = saving.pending \ {spec}, !.failed = failed]
             /\ UNCHANGED <<modalOpen, modalVars, loading, error>>
    /\ lastOp' = Op(IF ok THEN "addDocDone" ELSE "addDocFailed", spec.id, spec.status, 0, <<>>)
    /\ UNCHANGED <<apiKey, searchTerm, deleting, localVars, authVars, nextId, specs>>
    /\ FunctionsIdle

RECURSIVE Reverse(_)
Reverse(q) == IF q = <<>> THEN <<>> ELSE Append(Reverse(Tail(q)), Head(q))

\* query(collection(...), orderBy('createdAt', 'desc'))
QueryResult(docs) == Reverse(docs)

\* onSnapshot's callback: setSpecs(fetchedSpecs); if (error) setError('');
\* `error` is the one of the render whose effect attached the listener. The
\* page renders again, and an open upload dialog is mounted afresh.
Snapshot ==
    /\ NoMicrotask
    /\ listener.attached
    /\ specs # QueryResult(db)
    /\ specs' = QueryResult(db)
    /\ error' = IF listener.error # NoError THEN NoError ELSE error
    /\ IF modalOpen THEN ModalFresh ELSE UNCHANGED modalVars
    /\ lastOp' = Op("Snapshot", 0, "none", 0, <<>>)
    /\ UNCHANGED <<apiKey, searchTerm, deleting, localVars, authVars, modalOpen, nextId, loading, db, saving>>
    /\ FunctionsIdle

Next ==
    \/ OpenModal
    \/ CloseModal
    \/ \E files \in FileSelections : handleFileSelect(files)
    \/ \E id \in ItemIds(uploadQueue) : handleRemoveItem(id)
    \/ \E id \in ItemIds(uploadQueue), value \in Hints : handleInputChange(id, value)
    \/ \E id \in ItemIds(uploadQueue) : handleAnalyzeItem(id)
    \/ handleAnalyzeAll
    \/ \E t \in tasks : TaskThrown(t)
    \/ \E t \in tasks, answer \in QueueAnswers : TaskFetchAnswer(t, answer)
    \/ \E t \in tasks : TaskSleepDone(t)
    \/ \E t \in tasks, body \in QueueBodies : TaskBody(t, body)
    \/ handleSave
    \/ \E spec \in saving.pending, ok \in BOOLEAN : AddDocSettles(spec, ok)
    \/ Snapshot

Spec == InitPage /\ [][Next]_vars

-----------------------------------------------------------------------------
(* Claims about the upload dialog, checked under Spec *)

StatusOf(q, id) == IF id \in ItemIds(q) THEN ItemById(q, id).status ELSE "absent"

\* The edges the status of one item may follow, with the operation that
\* causes each.
StatusEdge(a, b, op) ==
    \/ a = "absent" /\ b = "pending" /\ op = "handleFileSelect"
    \/ a \in {"pending", "analyzed", "error"} /\ b = "analyzing"
            /\ op \in {"handleAnalyzeItem", "handleAnalyzeAll"}
    \/ a = "analyzing" /\ b = "analyzed" /\ op = "analysisSucceeded"
    \/ a = "analyzing" /\ b = "error" /\ op = "analysisFailed"
    \/ a \in {"analyzed", "error"} /\ b = "pending" /\ op = "handleInputChange"

\* C3: every change of a queue item's status follows one of the edges: a new
\* item starts pending; pending, analyzed or error -> analyzing when analysis
\* starts; analyzing -> analyzed on success; analyzing -> error on failure;
\* analyzed or error -> pending on a hint edit. No item goes from analyzing to
\* pending, none reaches analyzed or error except from analyzing.
C3_StatusEdges ==
    [][\A id \in ItemIds(uploadQueue) \cup ItemIds(uploadQueue') :
          LET a == StatusOf(uploadQueue, id)
              b == StatusOf(uploadQueue', id)
          IN (a # b /\ b # "absent") => StatusEdge(a, b, lastOp'.op)]_vars

\* An analysis has just failed, taking its item from analyzing to error, next
\* to an item that a hint edit left pending with the new hint.
C3_Witness ==
    /\ lastOp.op = "analysisFailed"
    /\ lastOp.from = "analyzing"
    /\ StatusOf(uploadQueue, lastOp.id) = "error"
    /\ \E k \in 1..Len(uploadQueue) :
          /\ uploadQueue[k].status = "pending"
          /\ uploadQueue[k].mockContent # <<>>

\* C4: a hint edit on an item whose status is analyzed or error leaves that
\* item pending with summary, keywords and error empty and mockContent equal
\* to the new text; every other queue item is unchanged.
C4_HintEditResets ==
    [][(lastOp'.op = "handleInputChange" /\ lastOp'.from \in {"analyzed", "error"}) =>
          /\ Len(uploadQueue') = Len(uploadQueue)
          /\ \A k \in 1..Len(uploadQueue) :
                IF uploadQueue[k].id = lastOp'.id
                THEN /\ uploadQueue'[k].status = "pending"
                     /\ uploadQueue'[k].summary = JStr(<<>>)
                     /\ uploadQueue'[k].keywords = JArr(<<>>)
                     /\ uploadQueue'[k].error = ""
                     /\ uploadQueue'[k].mockContent = lastOp'.value
                     /\ uploadQueue'[k].id = uploadQueue[k].id
                     /\ uploadQueue'[k].fileName = uploadQueue[k].fileName
                ELSE uploadQueue'[k] = uploadQueue[k]]_vars

\* The hint of an analyzed item has just been edited while another item of the
\* queue holds the results of its analysis.
C4_Witness ==
    /\ lastOp.op = "handleInputChange"
    /\ lastOp.from = "analyzed"
    /\ StatusOf(uploadQueue, lastOp.id) = "pending"
    /\ \E k \in 1..Len(uploadQueue) :
          /\ uploadQueue[k].id # lastOp.id
          /\ uploadQueue[k].status = "analyzed"
          /\ uploadQueue[k].summary # JStr(<<>>)

Qualifying(q) ==
    { q[k].id : k \in { j \in 1..Len(q) :
                          q[j].fileName # <<>> /\ q[j].status \in {"pending", "error"} } }

\* C5: handleAnalyzeAll, invoked on the queue as it is, starts an analysis for
\* exactly the items with a non-empty fileName and status pending or error;
\* the other items are left as they are; when no item qualifies, the queue
\* and the busy flag are unchanged.
C5_AnalyzeAllStartsExactlyQualifying ==
    LET r == AnalyzeAllResult(uploadQueue, isAnalyzing, tasks) IN
        /\ { t.id : t \in r.tasks \ tasks } = Qualifying(uploadQueue)
        /\ Len(r.queue) = Len(uploadQueue)
        /\ \A k \in 1..Len(uploadQueue) :
              IF uploadQueue[k].id \in Qualifying(uploadQueue)
              THEN r.queue[k].status = "analyzing"
              ELSE r.queue[k] = uploadQueue[k]
        /\ Qualifying(uploadQueue) = {} =>
              (r.queue = uploadQueue /\ r.isAnalyzing = isAnalyzing)
        /\ Qualifying(uploadQueue) # {} => r.isAnalyzing

\* handleAnalyzeAll has just run on a queue with an analyzed item and an item
\* that qualified: the first kept its results, the second is being analyzed.
C5_Witness ==
    /\ lastOp.op = "handleAnalyzeAll"
    /\ \E k \in 1..Len(uploadQueue) : uploadQueue[k].status = "analyzed"
    /\ \E k \in 1..Len(uploadQueue) : uploadQueue[k].status = "analyzing"
    /\ Cardinality(tasks) = 1

\* The queue holds only analyzed items and the dialog is idle: the case where
\* no item qualifies.
C5_NoneQualifies ==
    /\ Len(uploadQueue) > 0
    /\ Qualifying(uploadQueue) = {}
    /\ ~isAnalyzing

\* C6: a document of the collection is made only from a queue item that was
\* analyzed when the save was committed; no pending, analyzing or error item
\* ever produces one.
C6_OnlyAnalyzedItemsAreSaved ==
    /\ \A k \in 1..Len(db) : db[k].srcStatus = "analyzed"
    /\ \A k \in 1..Len(specs) : specs[k].srcStatus = "analyzed"
    /\ \A spec \in saving.pending : spec.status = "analyzed"

\* A save that left an item of the queue out has put its document into the
\* collection.
C6_Witness ==
    /\ lastOp.op = "addDocDone"
    /\ Len(db) > 0
    /\ db[Len(db)].skipped > 0

\* C8: without an API key an analysis fails with no attempt of fetch made,
\* and the item ends in status error: while its call is in flight the only
\* step the page can take is the one that marks it failed.
C8_NoKeyNoFetch ==
    ~apiKey =>
        /\ \A t \in tasks : t.attempts = 0 /\ t.pc = "thrown"
        /\ \A k \in 1..Len(uploadQueue) :
              /\ uploadQueue[k].status # "analyzed"
              /\ uploadQueue[k].status = "analyzing" =>
                    \E t \in tasks : t.id = uploadQueue[k].id
              /\ uploadQueue[k].status = "error" =>
                    uploadQueue[k].error = MissingKeyMessage
        /\ lastOp.op # "analysisSucceeded"
        /\ lastOp.op = "analysisFailed" =>
              /\ lastOp.attempts = 0
              /\ StatusOf(uploadQueue, lastOp.id) = "error"

\* Without an API key, the analysis of an item has just failed.
C8_Witness ==
    /\ ~apiKey
    /\ lastOp.op = "analysisFailed"
    /\ lastOp.from = "analyzing"
    /\ StatusOf(uploadQueue, lastOp.id) = "error"

-----------------------------------------------------------------------------
(* Specification SpecFilter: the search box and filteredSpecs *)

\* records in the catalog list of the search specification
MaxSpecs == 2

\* String.prototype.toLowerCase, on the letters the model uses
LowerChar(c) ==
    CASE c = "A" -> "a" [] c = "K" -> "k" [] c = "P" -> "p" [] c = "S" -> "s"
      [] OTHER -> c
ToLowerCase(s) == [k \in 1..Len(s) |-> LowerChar(s[k])]

RECURSIVE Includes(_, _)
\* s.includes(t): t occurs in s at some position
Includes(s, t) ==
    IF Len(t) > Len(s) THEN FALSE
    ELSE IF SubSeq(s, 1, Len(t)) = t THEN TRUE
    ELSE Includes(Tail(s), t)

\* What the search box can hold.
SearchTerms ==
    { <<>>, <<"a">>, <<"A">>, <<"p", "d">>, <<"s">>, <<"k">>, <<"z">> }

\* Payloads of the analyses behind the records of the search specification.
FilterPayloads ==
    { JObj(JStr(<<"S">>), JArr(<<JStr(<<"K">>)>>)),
      JObj(JStr(<<"s">>), JArr(<<JStr(<<"k">>), JNum(7)>>)),
      JObj(JNum(42), JArr(<<>>)),
      JObj(JUndefined, JUndefined) }

\* The analyzed queue items: a picked file with what generateSpecMetadata
\* returned for a payload.
FilterItems ==
    { MarkAnalyzed(<<NewItem(1, f)>>, 1,
                   MetadataFrom(v).summary, MetadataFrom(v).keywords)[1] :
        f \in Files, v \in FilterPayloads }

\* The catalog lists: documents saved from analyzed items, newest first.
FilterSpecLists ==
    UNION { { [k \in 1..n |-> NewDoc(items[k], n + 1 - k, 0)] : items \in [1..n -> FilterItems] } :
            n \in 0..MaxSpecs }

\* x.toLowerCase().includes(lowerCaseSearch) for a property value x reached
\* through ?. : undefined when x is undefined or null, a TypeError when x is
\* no string (x.toLowerCase is not a function)
LowerIncludes(x, lowerCaseSearch) ==
    CASE x.kind \in {"undefined", "null"} -> "undefined"
      [] x.kind = "string" ->
            IF Includes(ToLowerCase(x.val), lowerCaseSearch) THEN "true" ELSE "false"
      [] OTHER -> "TypeError"

RECURSIVE SomeKeyword(_, _)
\* keywords.some(keyword => keyword.toLowerCase().includes(lowerCaseSearch)):
\* the elements in order, up to the first that matches or throws
SomeKeyword(keywords, lowerCaseSearch) ==
    IF keywords = <<>> THEN "false"
    ELSE IF Head(keywords).kind # "string" THEN "TypeError"
    ELSE IF Includes(ToLowerCase(Head(keywords).val), lowerCaseSearch) THEN "true"
    ELSE SomeKeyword(Tail(keywords), lowerCaseSearch)

\* The callback of specs.filter for one record:
\*   spec.fileName.toLowerCase().includes(lowerCaseSearch) ||
\*   spec.keywords?.some(...) || spec.summary?.toLowerCase().includes(lowerCaseSearch)
SpecMatches(spec, lowerCaseSearch) ==
    IF Includes(ToLowerCase(spec.fileName), lowerCaseSearch) THEN "true"
    ELSE LET some == IF spec.keywords.kind \in {"undefined", "null"} THEN "undefined"
                     ELSE IF spec.keywords.kind = "array"
                          THEN SomeKeyword(spec.keywords.val, lowerCaseSearch)
                          ELSE "TypeError"
         IN IF some \in {"true", "TypeError"} THEN some
            ELSE LET last == LowerIncludes(spec.summary, lowerCaseSearch)
                 IN IF last = "undefined" THEN "false" ELSE last

\* filteredSpecs: the list, or the TypeError a callback threw
FilteredSpecs(list, term) ==
    IF term = <<>> THEN [kind |-> "value", list |-> list]
    ELSE LET lowerCaseSearch == ToLowerCase(term) IN
        IF \E k \in 1..Len(list) : SpecMatches(list[k], lowerCaseSearch) = "TypeError"
        THEN [kind |-> "TypeError", list |-> <<>>]
        ELSE [kind |-> "value",
              list |-> SelectSeq(list, LAMBDA spec : SpecMatches(spec, lowerCaseSearch) = "true")]

InitFilter ==
    /\ apiKey = TRUE
    /\ modalOpen = FALSE
    /\ uploadQueue = <<>>
    /\ isAnalyzing = FALSE
    /\ tasks = {}
    /\ nextId = 1
    /\ loading = FALSE
    /\ error = NoError
    /\ specs \in FilterSpecLists
    /\ db = QueryResult(specs)
    /\ saving = NoSaving
    /\ searchTerm = <<>>
    /\ deleting = {}
    /\ stored = NoStorage
    /\ now = 0
    /\ mounted = "yes"
    /\ AuthDone
    /\ lastOp = NoOp
    /\ fRetries = DefaultRetries
    /\ fI = 0
    /\ fPc = "idle"
    /\ fAttempts = 0
    /\ fHist = <<>>
    /\ fResult = NoValue
    /\ fDelays = <<>>
    /\ mKey = TRUE
    /\ mPc = "none"
    /\ mBody = NoBody
    /\ mResult = NoResult

\* the search box: onChange={(e) => setSearchTerm(e.target.value)}; the page
\* renders again with filteredSpecs computed from the new term
SetSearchTerm(term) ==
    /\ term # searchTerm
    /\ searchTerm' = term
    /\ IF modalOpen THEN ModalFresh ELSE UNCHANGED modalVars
    /\ lastOp' = Op("SetSearchTerm", 0, "none", 0, term)
    /\ UNCHANGED <<apiKey, modalOpen, nextId, loading, error, specs, db, saving,
                   deleting, localVars, authVars>>
    /\ FunctionsIdle

NextFilter == \E term \in SearchTerms : SetSearchTerm(term)

SpecFilter == InitFilter /\ [][NextFilter]_vars

\* t is a substring of s
IsSubstring(t, s) ==
    \E i \in 0..(Len(s) - Len(t)) : \A j \in 1..Len(t) : s[i + j] = t[j]

\* the lower-cased value of a text field, when the field holds a text
LowerText(x) == [k \in 1..Len(x.val) |-> LowerChar(x.val[k])]

\* the record is one the claim's filter returns
Wanted(spec, term) ==
    LET t == [k \in 1..Len(term) |-> LowerChar(term[k])] IN
        \/ IsSubstring(t, [k \in 1..Len(spec.fileName) |-> LowerChar(spec.fileName[k])])
        \/ spec.summary.kind = "string" /\ IsSubstring(t, LowerText(spec.summary))
        \/ /\ spec.keywords.kind = "array"
           /\ \E k \in 1..Len(spec.keywords.val) :
                 /\ spec.keywords.val[k].kind = "string"
                 /\ IsSubstring(t, LowerText(spec.keywords.val[k]))

\* C10: the search filter returns exactly the records for which the
\* lower-cased term is a substring of the lower-cased fileName, summary or
\* some keyword, in the order of the record list; all records when the term
\* is empty.
C10_FilterReturnsExactlyMatches ==
    /\ FilteredSpecs(specs, searchTerm).kind = "value"
    /\ FilteredSpecs(specs, searchTerm).list =
            SelectSeq(specs, LAMBDA spec : Wanted(spec, searchTerm))
    /\ searchTerm = <<>> => FilteredSpecs(specs, searchTerm).list = specs

-----------------------------------------------------------------------------
(* The catalog part of the main render (src/app/page.jsx) *)

\* What the main render shows of the catalog once isAuthReady is true:
\*   {isAuthReady && specs.map(spec => <SpecCard key={spec.id} spec={spec} />)}
\*   {isAuthReady && searchTerm && filteredSpecs.length === 0 && (<notice/>)}
\* or the TypeError that useMemo's callback threw during the render.
RenderCatalog(list, term) ==
    LET f == FilteredSpecs(list, term) IN
        IF f.kind = "TypeError"
        THEN [kind |-> "TypeError", cards |-> <<>>, notice |-> FALSE]
        ELSE [kind |-> "value",
              cards |-> list,
              notice |-> (term # <<>> /\ Len(f.list) = 0)]

\* C11: in every catalog view that is rendered, the cards displayed are
\* exactly the records the search filter returns for the current term (no
\* record that fails a non-empty term is displayed), and the 'no results'
\* notice is shown only when no card is displayed.
C11_CardsAreTheFilteredRecords ==
    LET r == RenderCatalog(specs, searchTerm) IN
        r.kind = "value" =>
            /\ r.cards = SelectSeq(specs, LAMBDA spec : Wanted(spec, searchTerm))
            /\ r.notice => r.cards = <<>>

-----------------------------------------------------------------------------
(* Specification SpecLocal: the local-storage variant
   (src/unnamed/part_000, lines 1 to 203) *)

\* the reading of the clock at which the model stops committing
MaxNow == 3

RECURSIVE JsonValue(_)
\* What JSON.parse reads back from JSON.stringify's text of an array element:
\* undefined is written as null, an array element by element.
JsonValue(j) ==
    CASE j.kind = "undefined" -> JNull
      [] j.kind = "array" -> JArr([k \in 1..Len(j.val) |-> JsonValue(j.val[k])])
      [] OTHER -> j

\* ... of a property value: a property that is undefined is not written, and
\* reads as undefined afterwards.
JsonProperty(j) == IF j.kind = "undefined" THEN JUndefined ELSE JsonValue(j)

\* the writing of a record that leaves its keywords out
JsonRecordNoKeywords(r) ==
    [r EXCEPT !.summary = JsonProperty(r.summary), !.keywords = JUndefined]

\* ... of a record: its texts and numbers as they are, summary and keywords
\* as property values.
JsonRecord(r) ==
    [r EXCEPT !.summary = JsonProperty(r.summary), !.keywords = JsonProperty(r.keywords)]

\* JSON.stringify(specs), as the text localStorage then holds
Stringify(list) ==
    [ kind |-> "text",
      text |-> [empty |-> FALSE, parses |-> TRUE,
                value |-> JArr([k \in 1..Len(list) |-> JsonRecord(list[k])])] ]

\* saveSpecsToLocalStorage(specs), in the browser:
\* localStorage.setItem(LOCAL_STORAGE_KEY, JSON.stringify(specs))
SaveSpecs(list) == Stringify(list)

\* loadSpecsFromLocalStorage(), in the browser:
\*   const storedData = localStorage.getItem(LOCAL_STORAGE_KEY);
\*   try { return storedData ? JSON.parse(storedData) : []; } catch (e) { return []; }
\* "list" when what it returns is an array, "other" with the value otherwise.
LoadSpecs(st) ==
    IF st.kind = "absent" \/ st.text.empty
    THEN [kind |-> "list", list |-> <<>>, value |-> JUndefined]
    ELSE IF ~st.text.parses
    THEN [kind |-> "list", list |-> <<>>, value |-> JUndefined]
    ELSE IF st.text.value.kind = "array"
    THEN [kind |-> "list", list |-> st.text.value.val, value |-> JUndefined]
    ELSE [kind |-> "other", list |-> <<>>, value |-> st.text.value]

\* One element of specsToSaveData, made at clock reading t:
\* { id, fileName, fileType, downloadLink: `#mock-link-...`, summary, keywords,
\*   createdAt: new Date().toISOString() } (the random suffix left out; the
\* ISO text of an instant is ordered as the instant is)
LocalRecord(spec, t) ==
    [ id |-> spec.id,
      fileName |-> spec.fileName,
      fileType |-> spec.fileType,
      downloadLink |-> "#mock-link",
      summary |-> spec.summary,
      keywords |-> spec.keywords,
      createdAt |-> t ]

\* Records an earlier session left in localStorage, newest first.
OldItem(id, file) ==
    MarkAnalyzed(<<NewItem(id, file)>>, id, JStr(<<"o">>), JArr(<<>>))[1]
OldLists ==
    LET a == CHOOSE f \in Files : f.webkitRelativePath = <<>>
        b == CHOOSE f \in Files : f.webkitRelativePath # <<>>
    IN { <<>>,
         <<LocalRecord(OldItem(101, a), -1)>>,
         <<LocalRecord(OldItem(102, b), -1), LocalRecord(OldItem(101, a), -2)>> }

\* What localStorage can hold under the key when the page is opened: nothing,
\* the empty text, a text that is no JSON, the JSON texts null, {} and 5, and
\* the texts earlier sessions wrote.
StoredValues ==
    { NoStorage,
      [kind |-> "text", text |-> [empty |-> TRUE, parses |-> FALSE, value |-> JUndefined]],
      [kind |-> "text", text |-> [empty |-> FALSE, parses |-> FALSE, value |-> JUndefined]] }
        \cup { [kind |-> "text", text |-> [empty |-> FALSE, parses |-> TRUE, value |-> v]] :
                v \in {JNull, JEmptyObj, JNum(5)} }
        \cup { Stringify(list) : list \in OldLists }

\* The queue items a commit can be handed: analyzed with a summary text,
\* analyzed with the summary 42, or failed.
LocalItem(id, file, variant) ==
    CASE variant = "text" ->
            MarkAnalyzed(<<NewItem(id, file)>>, id, JStr(<<"s">>), JArr(<<JStr(<<"k">>)>>))[1]
      [] variant = "number" ->
            MarkAnalyzed(<<NewItem(id, file)>>, id, JNum(42), JArr(<<>>))[1]
      [] OTHER -> MarkError(<<NewItem(id, file)>>, id, "AI analysis failed")[1]
LocalVariants == {"text", "number", "error"}

\* The lists specsToSave of one or two items with the next ids.
LocalBatches(firstId) ==
    LET a == CHOOSE f \in Files : f.webkitRelativePath = <<>>
        b == CHOOSE f \in Files : f.webkitRelativePath # <<>>
    IN { <<LocalItem(firstId, a, v)>> : v \in LocalVariants } \cup
       { <<LocalItem(firstId, a, vw[1]), LocalItem(firstId + 1, b, vw[2])>> :
            vw \in LocalVariants \X LocalVariants }

InitLocal ==
    /\ apiKey = TRUE
    /\ modalOpen = FALSE
    /\ uploadQueue = <<>>
    /\ isAnalyzing = FALSE
    /\ tasks = {}
    /\ nextId = 1
    /\ loading = FALSE
    /\ error = NoError
    /\ specs = <<>>
    /\ db = <<>>
    /\ saving = NoSaving
    /\ searchTerm = <<>>
    /\ deleting = {}
    /\ stored \in StoredValues
    /\ now = 0
    /\ mounted = "no"
    /\ AuthDone
    /\ lastOp = NoOp
    /\ fRetries = DefaultRetries
    /\ fI = 0
    /\ fPc = "idle"
    /\ fAttempts = 0
    /\ fHist = <<>>
    /\ fResult = NoValue
    /\ fDelays = <<>>
    /\ mKey = TRUE
    /\ mPc = "none"
    /\ mBody = NoBody
    /\ mResult = NoResult

LocalFrame ==
    /\ UNCHANGED <<apiKey, modalOpen, modalVars, loading, error, db, saving, searchTerm, deleting, authVars>>
    /\ FunctionsIdle

\* The mount effect: setLoading(true); setSpecs(loadSpecsFromLocalStorage());
\* setLoading(false). The render that follows maps and measures specs, and
\* throws when specs is no array.
InitialLoad ==
    /\ mounted = "no"
    /\ LET r == LoadSpecs(stored) IN
        /\ specs' = IF r.kind = "list" THEN r.list ELSE r.value
        /\ mounted' = IF r.kind = "list" THEN "yes" ELSE "crashed"
    /\ lastOp' = Op("InitialLoad", 0, "none", 0, <<>>)
    /\ UNCHANGED <<stored, now, nextId>>
    /\ LocalFrame

RECURSIVE SumTo(_, _)
SumTo(f, n) == IF n = 0 THEN 0 ELSE f[n] + SumTo(f, n - 1)

\* specsToSave.filter(spec => spec.status === 'analyzed').map(spec => ({...})):
\* the clock advances by ticks[k] before the k-th record is made
SpecsToSaveData(specsToSave, ticks, t0) ==
    LET analyzed == SelectSeq(specsToSave, IsAnalyzedItem)
    IN [k \in 1..Len(analyzed) |-> LocalRecord(analyzed[k], t0 + SumTo(ticks, k))]

\* the new list that holds the new records only
OnlyNewSpecs(specsToSaveData, prevSpecs) == specsToSaveData

\* const newSpecs = [...specsToSaveData, ...prevSpecs];
PrependSpecs(specsToSaveData, prevSpecs) == specsToSaveData \o prevSpecs

\* handleSaveAnalyzedSpecs(specsToSave) of the local variant:
\* setSpecs(prevSpecs => { newSpecs = [...specsToSaveData, ...prevSpecs];
\* saveSpecsToLocalStorage(newSpecs); return newSpecs; }); setLoading(false);
\* setModal(closed)
LocalSave(specsToSave, ticks) ==
    /\ mounted = "yes"
    /\ nextId + Len(specsToSave) - 1 <= MaxIds
    /\ now + SumTo(ticks, Len(specsToSave)) <= MaxNow
    /\ LET newSpecs == PrependSpecs(SpecsToSaveData(specsToSave, ticks, now), specs) IN
        /\ specs' = newSpecs
        /\ stored' = SaveSpecs(newSpecs)
    /\ now' = now + SumTo(ticks, Len(specsToSave))
    /\ nextId' = nextId + Len(specsToSave)
    /\ mounted' = mounted
    /\ lastOp' = Op("LocalSave", 0, "none", 0, <<>>)
    /\ LocalFrame

\* the filter that also drops the last of the records it should keep
WithoutIdNorLast(list, id) ==
    LET kept == SelectSeq(list, LAMBDA spec : spec.id # id)
    IN IF kept = <<>> THEN kept ELSE SubSeq(kept, 1, Len(kept) - 1)

\* specs.filter(spec => spec.id !== id)
WithoutId(list, id) == SelectSeq(list, LAMBDA spec : spec.id # id)

\* the delete that writes the list as it was before the filter
LocalDeleteKeepsStored(list, id) ==
    [specs |-> WithoutId(list, id), stored |-> SaveSpecs(list)]

\* What handleDeleteSpec(id) of the local variant leaves in the list and in
\* localStorage: newSpecs = specs.filter(...); setSpecs(newSpecs);
\* saveSpecsToLocalStorage(newSpecs)
LocalDeleteResult(list, id) ==
    [specs |-> WithoutId(list, id), stored |-> SaveSpecs(WithoutId(list, id))]

\* handleDeleteSpec(id) of the local variant, from the delete button of a card
LocalDelete(id) ==
    /\ mounted = "yes"
    /\ \E k \in 1..Len(specs) : specs[k].id = id
    /\ specs' = LocalDeleteResult(specs, id).specs
    /\ stored' = LocalDeleteResult(specs, id).stored
    /\ lastOp' = Op("LocalDelete", id, "none", 0, <<>>)
    /\ UNCHANGED <<now, nextId, mounted>>
    /\ LocalFrame

NextLocal ==
    \/ InitialLoad
    \/ \E specsToSave \in LocalBatches(nextId) :
          \E ticks \in [1..Len(specsToSave) -> {0, 1}] : LocalSave(specsToSave, ticks)
    \/ \E id \in {101, 102} \cup (1..MaxIds) : LocalDelete(id)

SpecLocal == InitLocal /\ [][NextLocal]_vars

\* C12: in the local variant the catalog list is most recent first after any
\* commits and deletes: createdAt does not increase from the front of the
\* list to the back, also among the records of one batch made at different
\* readings of the clock.
C12_MostRecentFirst ==
    mounted = "yes" =>
        \A k \in 1..(Len(specs) - 1) : specs[k].createdAt >= specs[k + 1].createdAt

-----------------------------------------------------------------------------
(* Specification SpecSelect: files added to the queue of an open dialog *)

\* Files b, bc and c, each picked alone or within the folder a or ab.
SelectNames == { <<"b">>, <<"b", "c">>, <<"c">> }
SelectFolders == { <<>>, <<"a">>, <<"a", "b">> }
SelectFile(folder, name) ==
    [ name |-> name,
      webkitRelativePath |-> IF folder = <<>> THEN <<>> ELSE folder \o <<"/">> \o name ]

\* What one change event of a file input can deliver here: one file, or two
\* files of the same folder.
SelectSelections ==
    { <<SelectFile(d, n)>> : d \in SelectFolders, n \in SelectNames } \cup
    { <<SelectFile(x[1], x[2]), SelectFile(x[1], x[3])>> :
        x \in { y \in SelectFolders \X SelectNames \X SelectNames : y[2] # y[3] } }

\* The upload dialog has just been opened.
InitSelect ==
    /\ apiKey = TRUE
    /\ modalOpen = TRUE
    /\ uploadQueue = <<>>
    /\ isAnalyzing = FALSE
    /\ tasks = {}
    /\ nextId = 1
    /\ loading = FALSE
    /\ error = NoError
    /\ specs = <<>>
    /\ db = <<>>
    /\ saving = NoSaving
    /\ searchTerm = <<>>
    /\ deleting = {}
    /\ stored = NoStorage
    /\ now = 0
    /\ mounted = "yes"
    /\ AuthDone
    /\ lastOp = NoOp
    /\ fRetries = DefaultRetries
    /\ fI = 0
    /\ fPc = "idle"
    /\ fAttempts = 0
    /\ fHist = <<>>
    /\ fResult = NoValue
    /\ fDelays = <<>>
    /\ mKey = TRUE
    /\ mPc = "none"
    /\ mBody = NoBody
    /\ mResult = NoResult

NextSelect == \E files \in SelectSelections : handleFileSelect(files)

SpecSelect == InitSelect /\ [][NextSelect]_vars

\* the (filePath, fileName) pairs of the items of a queue
QueuedPairs(q) == { <<q[k].filePath, q[k].fileName>> : k \in 1..Len(q) }

\* the (filePath, fileName) pairs of the files of a selection
SelectedPairs(files) == { <<FilePathOf(files[k]), files[k].name>> : k \in 1..Len(files) }

\* C13: with files only added, the queue holds exactly one entry for each
\* distinct (filePath, fileName) pair selected so far. Step by step: a
\* selection leaves the queue with the pairs it had and the pairs of the
\* selected files (none is dropped), each pair once.
C13_OneEntryPerPair ==
    [][lastOp'.op = "handleFileSelect" =>
          /\ QueuedPairs(uploadQueue') =
                QueuedPairs(uploadQueue) \cup SelectedPairs(lastOp'.files)
          /\ \A j, k \in 1..Len(uploadQueue') :
                (uploadQueue'[j].filePath = uploadQueue'[k].filePath
                    /\ uploadQueue'[j].fileName = uploadQueue'[k].fileName) => j = k]_vars

-----------------------------------------------------------------------------
(* The type badge of a queue item (UploadItem) *)

\* name.split('.').pop(): the text after the last dot, the whole name when
\* it has no dot
LastPart(name) == SubSeq(name, LastIndexOf(name, ".") + 1, Len(name))

\* getFileTypeFromExtension(name), with ext = name.split('.').pop().toLowerCase()
getFileTypeFromExtension(name) ==
    LET ext == ToLowerCase(LastPart(name)) IN
        IF ext \in { <<"p", "d", "f">> } THEN <<"P", "D", "F">>
        ELSE IF ext \in { <<"x", "l", "s", "x">>, <<"x", "l", "s">> } THEN <<"X", "L", "S", "X">>
        ELSE IF ext \in { <<"z", "i", "p">>, <<"r", "a", "r">>, <<"7", "z">> } THEN <<"Z", "I", "P">>
        ELSE <<"E", "T", "C">>

\* {item.fileName ? getFileTypeFromExtension(item.fileName) : 'N/A'}
TypeBadge(item) ==
    IF item.fileName # <<>> THEN getFileTypeFromExtension(item.fileName)
    ELSE <<"N", "/", "A">>

FileTypeCategories ==
    { <<"P", "D", "F">>, <<"X", "L", "S", "X">>, <<"Z", "I", "P">>,
      <<"E", "T", "C">>, <<"N", "/", "A">> }

\* C14: the fileType stored on every queue item, and so on every record
\* saved from it, is one of PDF, XLSX, ZIP, ETC and N/A (xls counted as XLSX),
\* and is the category the item's type badge shows.
C14_StoredTypeIsTheBadgeCategory ==
    /\ \A k \in 1..Len(uploadQueue) :
          /\ uploadQueue[k].fileType \in FileTypeCategories
          /\ uploadQueue[k].fileType = TypeBadge(uploadQueue[k])
    /\ \A k \in 1..Len(db) : db[k].fileType \in FileTypeCategories

-----------------------------------------------------------------------------
(* Specification SpecCatalog: the catalog of the remote variant and the
   delete button of its cards (src/app/page.jsx) *)

\* The page with its listener attached and a catalog in the collection.
InitCatalog == InitFilter

\* A call of handleDeleteSpec(id) in flight. confirmed tells whether the user
\* confirmed the deletion between the click and the call of deleteDoc: the
\* button's onClick calls handleDeleteSpec at once, no dialog is opened and no
\* step of the code asks.
DeleteCall(id) == [id |-> id, confirmed |-> FALSE]

\* SpecCard's delete button: onClick={() => handleDeleteSpec(spec.id)};
\* handleDeleteSpec: userId and db are there; await deleteDoc(docRef)
handleDeleteSpec(id) ==
    /\ \E k \in 1..Len(specs) : specs[k].id = id
    /\ \A d \in deleting : d.id # id
    /\ deleting' = deleting \cup {DeleteCall(id)}
    /\ lastOp' = Op("handleDeleteSpec", id, "none", 0, <<>>)
    /\ UNCHANGED <<apiKey, modalOpen, modalVars, nextId, loading, error, specs, db, saving,
                   searchTerm, localVars, authVars>>
    /\ FunctionsIdle

\* deleteDoc settles: the document is gone from the collection, or the catch
\* block runs setError(`문서 삭제 실패: ${e.message}`) and the page renders
\* again
DeleteDocSettles(d, ok) ==
    /\ d \in deleting
    /\ deleting' = deleting \ {d}
    /\ IF ok
       THEN /\ db' = SelectSeq(db, LAMBDA doc : doc.id # d.id)
            /\ UNCHANGED <<error, modalVars>>
       ELSE /\ error' = [kind |-> "deleteFailed", files |-> <<>>]
            /\ IF modalOpen THEN ModalFresh ELSE UNCHANGED modalVars
            /\ UNCHANGED db
    /\ lastOp' = Op(IF ok THEN "deleteDocDone" ELSE "deleteDocFailed", d.id, "none", 0, <<>>)
    /\ UNCHANGED <<apiKey, modalOpen, nextId, loading, specs, saving, searchTerm, localVars,
                   authVars>>
    /\ FunctionsIdle

NextCatalog ==
    \/ \E k \in 1..Len(specs) : handleDeleteSpec(specs[k].id)
    \/ \E d \in deleting, ok \in BOOLEAN : DeleteDocSettles(d, ok)
    \/ Snapshot

SpecCatalog == InitCatalog /\ [][NextCatalog]_vars

\* C15: no record is deleted without a confirmation of that deletion by the
\* user between the delete request and the removal: a document leaves the
\* collection only through a delete call that the user confirmed.
C15_DeleteNeedsConfirmation ==
    [][\A k \in 1..Len(db) :
          (\A j \in 1..Len(db') : db'[j].id # db[k].id) =>
              \E d \in deleting : d.id = db[k].id /\ d.confirmed]_vars

-----------------------------------------------------------------------------
(* Claims about the local-storage variant, checked under SpecLocal *)

\* the ids a record of the local catalog can have, and one none has
LocalIds == {0, 101, 102} \cup (1..MaxIds)

\* C16: in the local variant, delete(id) on the catalog as it is removes
\* exactly the records with that id from the list and from the persisted
\* collection; the other records stay, unchanged and in their order; with an
\* id that no record has, list and persisted collection are unchanged.
C16_DeleteRemovesExactlyThatId ==
    mounted = "yes" =>
        \A id \in LocalIds :
            LET r == LocalDeleteResult(specs, id)
                kept == { k \in 1..Len(specs) : specs[k].id # id }
            IN /\ Len(r.specs) = Cardinality(kept)
               /\ \A k \in kept :
                     r.specs[Cardinality({ j \in kept : j <= k })] = specs[k]
               /\ LoadSpecs(r.stored).kind = "list"
               /\ LoadSpecs(r.stored).list = r.specs
               /\ kept = 1..Len(specs) =>
                     /\ r.specs = specs
                     /\ LoadSpecs(r.stored) = LoadSpecs(stored)

\* A delete has just removed one of two records: the other one is still in
\* the list and in localStorage.
C16_Witness ==
    /\ mounted = "yes"
    /\ lastOp.op = "LocalDelete"
    /\ Len(specs) = 1
    /\ specs[1].id # lastOp.id
    /\ LoadSpecs(stored).list = specs

-----------------------------------------------------------------------------
(* Claims about the outcome of single analyses, checked under Spec *)

\* the step is the end of the analysis of item id, with outcome op
SettleStep(id, op) ==
    /\ lastOp'.op = op
    /\ lastOp'.id = id
    /\ \E t \in tasks : t.id = id /\ tasks' = tasks \ {t}

-----------------------------------------------------------------------------
(* More claims about the local-storage variant, checked under SpecLocal *)

\* the fields of a catalog record
RecordFields(r) ==
    <<r.id, r.fileName, r.fileType, r.summary, r.keywords, r.createdAt, r.downloadLink>>

\* C18: in the local variant a record in the catalog keeps its fields (id,
\* fileName, fileType, summary, keywords, createdAt, downloadLink) in every
\* later state until it is deleted: no step alters a record that stays, in
\* the list or in localStorage, and only a delete of its id removes it.
C18_RecordsAreImmutable ==
    [][(mounted = "yes" /\ mounted' = "yes") =>
          \A k \in 1..Len(specs) :
              IF lastOp'.op = "LocalDelete" /\ lastOp'.id = specs[k].id
              THEN \A j \in 1..Len(specs') : specs'[j].id # specs[k].id
              ELSE /\ \E j \in 1..Len(specs') :
                        RecordFields(specs'[j]) = RecordFields(specs[k])
                   /\ \A j \in 1..Len(specs') :
                        specs'[j].id = specs[k].id =>
                            RecordFields(specs'[j]) = RecordFields(specs[k])
                   /\ \E j \in 1..Len(LoadSpecs(stored').list) :
                        RecordFields(LoadSpecs(stored').list[j]) = RecordFields(specs[k])]_vars

\* A commit has just put a new record in front of the records an earlier
\* session had stored.
C18_Witness ==
    /\ mounted = "yes"
    /\ lastOp.op = "LocalSave"
    /\ Len(specs) >= 2
    /\ specs[Len(specs)].id = 101
    /\ specs[1].id < 101
    /\ LoadSpecs(stored).list = specs

C20_LoadAlwaysReturnsAList == LoadSpecs(stored).kind = "list"

-----------------------------------------------------------------------------
(* Specification SpecRace: the upload dialog with the renders of React as
   steps of their own. A state update made outside an event handler (in the
   continuation of an await) is queued and rendered in a later task of the
   scheduler; an event that the browser delivers before that task is handled
   with the state of the last render. *)

\* what generateSpecMetadata can settle with once its request is out: the
\* results of the bodies tried on the page, and the failure of a 500 answer
RaceResults ==
    { MetadataFromBody(body) : body \in QueueBodies }
        \cup { MetadataFromFetchFailure("thrown", Thrown(HttpErrorMessage(500))) }

\* await generateSpecMetadata(...) of the call t, whose request is out,
\* settles with `result` and the rest of analyzeAndSetQueue runs:
\* setUploadQueue(prev => ...) is queued, and after the last call of the start
\* setIsAnalyzing(false) with it. (A call rejected at the key check settles
\* in a microtask of the click that started it and is rendered with it:
\* TaskThrown.)
TaskResolves(t, result) ==
    /\ t.pc = "fetch"
    /\ NoMicrotask
    /\ result \in RaceResults
    /\ tasks' = (tasks \ {t}) \cup {[t EXCEPT !.pc = "settled", !.result = result]}
    /\ lastOp' = Op("analysisResolved", t.id, "none", 0, <<>>)
    /\ UNCHANGED <<uploadQueue, isAnalyzing>>
    /\ UNCHANGED <<apiKey, searchTerm, deleting, localVars, authVars, modalOpen, nextId, loading, error, specs, db, saving>>
    /\ FunctionsIdle

RECURSIVE ApplySettled(_, _)
\* the queued updaters of the settled calls, applied to the queue q
ApplySettled(q, settled) ==
    IF settled = {} THEN q
    ELSE LET t == CHOOSE c \in settled : TRUE
         IN ApplySettled(IF t.result.kind = "value"
                         THEN MarkAnalyzed(q, t.id, t.result.summary, t.result.keywords)
                         ELSE MarkError(q, t.id, t.result.message),
                         settled \ {t})

\* React renders the queued updates of the settled calls
Render ==
    /\ NoMicrotask
    /\ \E t \in tasks : t.pc = "settled"
    /\ LET settled == { t \in tasks : t.pc = "settled" } IN
        /\ uploadQueue' = ApplySettled(uploadQueue, settled)
        /\ tasks' = tasks \ settled
        /\ isAnalyzing' = IF tasks \ settled = {} THEN FALSE ELSE isAnalyzing
    /\ lastOp' = Op("Render", 0, "none", 0, <<>>)
    /\ UNCHANGED <<apiKey, searchTerm, deleting, localVars, authVars, modalOpen, nextId, loading, error, specs, db, saving>>
    /\ FunctionsIdle

\* the upload dialog alone: opened, closed, filled, edited and analyzed, with
\* nothing saved and so no snapshot arriving
NextRace ==
    \/ OpenModal
    \/ CloseModal
    \/ \E files \in FileSelections : handleFileSelect(files)
    \/ \E id \in ItemIds(uploadQueue) : handleRemoveItem(id)
    \/ \E id \in ItemIds(uploadQueue), value \in Hints : handleInputChange(id, value)
    \/ \E id \in ItemIds(uploadQueue) : handleAnalyzeItem(id)
    \/ handleAnalyzeAll
    \/ \E t \in tasks : TaskThrown(t)
    \/ \E t \in tasks, result \in RaceResults : TaskResolves(t, result)
    \/ Render

\* a call in flight settles, or the scheduler runs its render
RaceStep ==
    \/ \E t \in tasks : TaskThrown(t)
    \/ \E t \in tasks, result \in RaceResults : TaskResolves(t, result)
    \/ Render

\* the requests in flight are answered and the scheduler runs its renders
SpecRace == InitPage /\ [][NextRace]_vars /\ WF_tasks(RaceStep)

\* the steps that start analyses
StartsAnalyses == lastOp'.op \in {"handleAnalyzeItem", "handleAnalyzeAll"} /\ tasks' # tasks

\* C21: the busy flag is set when handleAnalyzeItem or handleAnalyzeAll starts
\* analyses and is cleared only when no analysis is left in flight; so
\* whenever the flag is false no item of the queue has status analyzing; and,
\* the network calls of the analyses eventually resolving, a set flag
\* eventually becomes false.
C21_BusyFlagCoversEveryAnalysis ==
    /\ [][StartsAnalyses => isAnalyzing']_vars
    /\ [][(isAnalyzing /\ ~isAnalyzing') => tasks' = {}]_vars
    /\ [](~isAnalyzing => \A k \in 1..Len(uploadQueue) : uploadQueue[k].status # "analyzing")
    /\ (isAnalyzing ~> ~isAnalyzing)

-----------------------------------------------------------------------------
(* Specification SpecSession: the page from its mount on: the auth effect
   with its 5 s timer (page.jsx 121-174), the snapshot listener (177-207) and
   the deletions of the catalog's cards *)

\* the collections a user can have from earlier sessions
SessionCollections ==
    { QueryResult(list) : list \in { l \in FilterSpecLists : Len(l) <= 1 } }

\* the messages of setError in the two effects
\* "인증 타임아웃: 네트워크 상태, Firebase 도메인/인증 설정을 확인하세요."
AuthTimeoutError == [kind |-> "authTimeout", files |-> <<>>]
\* "로그인 시도 실패: 익명 인증 설정을 확인하세요."
SignInFailedError == [kind |-> "signInFailed", files |-> <<>>]
\* "데이터 로딩 중 오류가 발생했습니다. (연결 문제 등)"
SnapshotFailedError == [kind |-> "snapshotFailed", files |-> <<>>]
\* "데이터베이스 권한 오류: Firestore 보안 규칙을 확인하세요. ..."
PermissionDeniedError == [kind |-> "permissionDenied", files |-> <<>>]

\* The first render is done and its effects have run: loading is true,
\* isAuthReady false, userId null; onAuthStateChanged is registered and the
\* timer set; the snapshot effect returned at its guard.
InitSession ==
    /\ apiKey = TRUE
    /\ modalOpen = FALSE
    /\ uploadQueue = <<>>
    /\ isAnalyzing = FALSE
    /\ tasks = {}
    /\ nextId = 1
    /\ loading = TRUE
    /\ error = NoError
    /\ specs = <<>>
    /\ db \in SessionCollections
    /\ saving = NoSaving
    /\ searchTerm = <<>>
    /\ deleting = {}
    /\ stored = NoStorage
    /\ now = 0
    /\ mounted = "yes"
    /\ isAuthReady = FALSE
    /\ userId = "null"
    /\ authPc = "initial"
    /\ timeoutId = "pending"
    /\ listener = [attached |-> FALSE, error |-> NoError]
    /\ lastOp = NoOp
    /\ fRetries = DefaultRetries
    /\ fI = 0
    /\ fPc = "idle"
    /\ fAttempts = 0
    /\ fHist = <<>>
    /\ fResult = NoValue
    /\ fDelays = <<>>
    /\ mKey = TRUE
    /\ mPc = "none"
    /\ mBody = NoBody
    /\ mResult = NoResult

\* what the session's actions leave alone
SessionFrame ==
    /\ UNCHANGED <<apiKey, modalOpen, nextId, db, saving, searchTerm, deleting,
                   localVars, specs>>
    /\ FunctionsIdle

\* the page renders again after a change of its state: an open upload dialog
\* is mounted afresh
Rerenders == IF modalOpen THEN ModalFresh ELSE UNCHANGED modalVars

\* handleAuthResult(user) with a user: setUserId(user.uid);
\* setIsAuthReady(true); setLoading(false). In the render that follows the
\* snapshot effect ([isAuthReady, userId] changed) attaches the listener,
\* whose callbacks close over that render's `error`.
handleAuthResult ==
    /\ userId' = "uid"
    /\ isAuthReady' = TRUE
    /\ loading' = FALSE
    /\ listener' = [attached |-> TRUE, error |-> error]
    /\ authPc' = "done"
    /\ Rerenders
    /\ UNCHANGED error

\* onAuthStateChanged's first callback: a user kept from an earlier visit, or
\* null, and then trySignInAnonymously() starts with its 300 ms wait
AuthStateChanged(user) ==
    /\ authPc = "initial"
    /\ IF user
       THEN handleAuthResult
       ELSE /\ authPc' = "delay"
            /\ UNCHANGED <<isAuthReady, userId, loading, error, listener, modalVars>>
    /\ lastOp' = Op("AuthStateChanged", 0, "none", 0, <<>>)
    /\ UNCHANGED timeoutId
    /\ SessionFrame

\* the 300 ms are over: signInAnonymously(auth) is called
SignInStarts ==
    /\ authPc = "delay"
    /\ authPc' = "signingIn"
    /\ lastOp' = Op("SignInStarts", 0, "none", 0, <<>>)
    /\ UNCHANGED <<isAuthReady, userId, loading, error, listener, timeoutId, modalVars>>
    /\ SessionFrame

\* signInAnonymously settles: onAuthStateChanged delivers the user, or the
\* catch block runs setError(...); setLoading(false)
SignInSettles(ok) ==
    /\ authPc = "signingIn"
    /\ IF ok
       THEN handleAuthResult
       ELSE /\ error' = SignInFailedError
            /\ loading' = FALSE
            /\ authPc' = "failed"
            /\ Rerenders
            /\ UNCHANGED <<isAuthReady, userId, listener>>
    /\ lastOp' = Op(IF ok THEN "SignInDone" ELSE "SignInFailed", 0, "none", 0, <<>>)
    /\ UNCHANGED timeoutId
    /\ SessionFrame

\* `loading` and `isAuthReady` as the timer's callback sees them: the
\* constants of the render whose effect set the timer. The effect has no
\* dependencies, so that is the first render: useState(true), useState(false).
TimeoutClosure == [loading |-> TRUE, isAuthReady |-> FALSE]

\* the timer's callback, 5 s after the mount:
\* if (loading && !isAuthReady) { setLoading(false); setError(prev => prev || "...") }
AuthTimeout ==
    /\ timeoutId = "pending"
    /\ timeoutId' = "fired"
    /\ IF TimeoutClosure.loading /\ ~TimeoutClosure.isAuthReady
       THEN /\ loading' = FALSE
            /\ error' = IF error # NoError THEN error ELSE AuthTimeoutError
            /\ Rerenders
       ELSE UNCHANGED <<loading, error, modalVars>>
    /\ lastOp' = Op("AuthTimeout", 0, IF isAuthReady THEN "ready" ELSE "notReady", 0, <<>>)
    /\ UNCHANGED <<isAuthReady, userId, authPc, listener>>
    /\ SessionFrame

\* onSnapshot's error callback: setError(...) by e.code; Firestore stops the
\* listener after an error
SnapshotError(denied) ==
    /\ listener.attached
    /\ listener' = [listener EXCEPT !.attached = FALSE]
    /\ error' = IF denied THEN PermissionDeniedError ELSE SnapshotFailedError
    /\ Rerenders
    /\ lastOp' = Op("SnapshotError", 0, "none", 0, <<>>)
    /\ UNCHANGED <<isAuthReady, userId, authPc, timeoutId, loading>>
    /\ SessionFrame

NextSession ==
    \/ \E user \in BOOLEAN : AuthStateChanged(user)
    \/ SignInStarts
    \/ \E ok \in BOOLEAN : SignInSettles(ok)
    \/ AuthTimeout
    \/ Snapshot
    \/ \E denied \in BOOLEAN : SnapshotError(denied)
    \/ \E k \in 1..Len(specs) : handleDeleteSpec(specs[k].id)
    \/ \E d \in deleting, ok \in BOOLEAN : DeleteDocSettles(d, ok)

SpecSession == InitSession /\ [][NextSession]_vars

\* C22: the timer's callback sets the 'auth timeout' error only if, when it
\* fires, loading has not been released and authentication is not ready; once
\* authentication has completed before the timer fires, no timeout error is
\* set.
C22_TimeoutOnlyWhenAuthPending ==
    [][(lastOp'.op = "AuthTimeout" /\ error' = AuthTimeoutError /\ error # AuthTimeoutError)
          => (loading /\ ~isAuthReady)]_vars

\* C23: after each successful snapshot callback the page's error is empty,
\* whatever error was set since the listener was attached.
C23_SnapshotClearsError == lastOp.op = "Snapshot" => error = NoError

-----------------------------------------------------------------------------
(* Further claims about fetchWithRetry, checked under SpecFetch *)

\* C24: a call issues at most `retries` fetch attempts; a transport-level
\* exception (fetch rejects) on an attempt that is not the last one is
\* swallowed and another attempt follows; on the last attempt the call throws
\* that same exception.
C24_TransportExceptionRetriedThenRaised ==
    /\ fAttempts <= fRetries
    /\ Len(fHist) = fAttempts
    /\ \A j \in 1..Len(fHist) :
          fHist[j].kind = "reject" =>
              IF j < fRetries
              THEN Len(fHist) = j => (fPc = "fetch" /\ fI = j /\ fResult = NoValue)
              ELSE /\ fPc = "thrown"
                   /\ fResult = Thrown(FailedToFetch)

\* fetch rejected on the first attempt and again on the third and last one,
\* and the call threw
C24_Witness ==
    /\ fRetries = 3
    /\ Len(fHist) = 3
    /\ fHist[1].kind = "reject"
    /\ fHist[3].kind = "reject"
    /\ fPc = "thrown"

\* the attempts (1-indexed) after which the call slept, in order: those that
\* were answered 429 with attempts remaining
SleptAfter ==
    SelectSeq([j \in 1..Len(fHist) |-> j],
              LAMBDA j : RateLimited(fHist[j]) /\ j < fRetries)

\* the call sleeps exactly after the attempts answered 429 with attempts
\* remaining, the sleep after 0-indexed attempt i lasting at least 2^i * 1000
\* and less than 2^i * 1000 + 1000 ms; with 3 attempts there are at most 2
\* sleeps
BackoffPolicy ==
    /\ Len(fDelays) = Len(SleptAfter)
    /\ \A k \in 1..Len(fDelays) :
          LET i == SleptAfter[k] - 1 IN
              /\ fDelays[k] >= (2 ^ i) * 1000
              /\ fDelays[k] < (2 ^ i) * 1000 + 1000
    /\ fPc = "sleep" <=>
          /\ fHist # <<>>
          /\ RateLimited(fHist[Len(fHist)])
          /\ Len(fHist) < fRetries
          /\ fI = Len(fHist) - 1
    /\ fRetries = DefaultRetries => Len(fDelays) <= 2

\* C25 (as claimed): the backoff policy above, and every retry (every attempt
\* but the first) is preceded by such a backoff sleep.
C25_EveryRetryAfterBackoff ==
    /\ BackoffPolicy
    /\ \A j \in 2..Len(fHist) : \E k \in 1..Len(fDelays) : SleptAfter[k] = j - 1

\* C25 (amended): the backoff policy above; a retry that follows a 429 answer
\* is preceded by such a sleep, and a retry that follows a transport
\* exception or a non-ok status other than 429 (both swallowed by the catch
\* block on an attempt that is not the last) is issued with no sleep.
C25_BackoffOnlyAfterRateLimit ==
    /\ BackoffPolicy
    /\ \A j \in 2..Len(fHist) :
          (\E k \in 1..Len(fDelays) : SleptAfter[k] = j - 1) <=> RateLimited(fHist[j - 1])
    /\ (fHist # <<>> /\ ~RateLimited(fHist[Len(fHist)]) /\ ~FetchFinished)
            => (fPc = "fetch" /\ fI = Len(fHist))

\* a call with 3 attempts that slept after the first and after the second,
\* the second sleep being of 2000 ms or more, and has ended
C25_Witness ==
    /\ fRetries = 3
    /\ Len(fHist) = 3
    /\ Len(fDelays) = 2
    /\ fDelays[2] >= 2000
    /\ FetchFinished

-----------------------------------------------------------------------------
(* Further claims about the upload dialog, checked under Spec *)

\* C26: in every reachable queue state an item whose status is not analyzed
\* (pending, analyzing or error) has an empty summary and an empty keywords
\* list, an item whose re-analysis failed after an earlier success included;
\* and an item whose status is analyzed has an empty error field.
C26_ResultsOnlyOnAnalyzedItems ==
    \A k \in 1..Len(uploadQueue) :
        /\ uploadQueue[k].status # "analyzed" =>
              /\ uploadQueue[k].summary = JStr(<<>>)
              /\ uploadQueue[k].keywords = JArr(<<>>)
        /\ uploadQueue[k].status = "analyzed" => uploadQueue[k].error = ""

-----------------------------------------------------------------------------
(* A further claim about the local-storage variant, checked under SpecLocal *)

\* C27: in the local variant, once the initial load has run and after every
\* completed commit or delete, the collection persisted under the key (what
\* loadSpecsFromLocalStorage reads from it) equals the list in memory: the
\* same records in the same order (and where the key holds JSON that is no
\* array, the value in memory is that value).
C27_StoredEqualsInMemory ==
    /\ mounted = "yes" =>
          /\ LoadSpecs(stored).kind = "list"
          /\ Len(LoadSpecs(stored).list) = Len(specs)
          /\ \A k \in 1..Len(specs) : LoadSpecs(stored).list[k] = specs[k]
    /\ (mounted = "yes" /\ lastOp.op \in {"LocalSave", "LocalDelete"}) =>
          stored = Stringify(specs)
    /\ mounted = "crashed" =>
          /\ LoadSpecs(stored).kind = "other"
          /\ specs = LoadSpecs(stored).value

\* a record of an earlier session has just been deleted from a list that
\* also holds a record committed in this session, which is still there
C27_Witness ==
    /\ mounted = "yes"
    /\ lastOp.op = "LocalDelete"
    /\ lastOp.id > 100
    /\ Len(specs) >= 1
    /\ \E k \in 1..Len(specs) : specs[k].id < 100
    /\ Len(LoadSpecs(stored).list) = Len(specs)

\* the queue's own operations: addFiles, removeItem, updateHint, the start of
\* analyses and their completion
QueueOps ==
    {"handleFileSelect", "handleRemoveItem", "handleInputChange", "handleAnalyzeItem",
     "handleAnalyzeAll", "analysisSucceeded", "analysisFailed"}

\* C28: while the upload dialog stays open, the upload queue and its busy flag
\* change only through the queue's own operations: a step that changes
\* page-level state (a snapshot arrives, the error notice or the loading flag
\* changes) leaves every queue item and the busy flag as they were.
C28_QueueChangesOnlyThroughItsOperations ==
    [][(modalOpen /\ modalOpen' /\ lastOp'.op \notin QueueOps)
          => (uploadQueue' = uploadQueue /\ isAnalyzing' = isAnalyzing)]_vars

\* the step is the settling of one addDoc of the commit in flight
AddSettles == saving.active /\ saving' # saving

-----------------------------------------------------------------------------
(* Removing and editing items while analyses are in flight (page.jsx
   590-648), under SpecRace *)

\* the ids of the items whose status is `status`
IdsWithStatus(q, status) ==
    { q[k].id : k \in { j \in 1..Len(q) : q[j].status = status } }

\* C30: handleRemoveItem(id) removes the item whatever its status and leaves
\* the other items as they are; the resolution of an analysis puts no item
\* into the queue, so an item removed while its analysis is in flight does not
\* reappear; and no outcome is lost: every item with status analyzing has a
\* call in flight that will mark it analyzed or error when it resolves.
C30_RemovalAndEditsKeepOtherOutcomes ==
    /\ [][lastOp'.op = "handleRemoveItem" =>
            uploadQueue' = SelectSeq(uploadQueue, LAMBDA item : item.id # lastOp'.id)]_vars
    /\ [][lastOp'.op \in {"analysisResolved", "analysisSucceeded", "analysisFailed", "Render"} =>
            ItemIds(uploadQueue') \subseteq ItemIds(uploadQueue)]_vars
    /\ [](IdsWithStatus(uploadQueue, "analyzing") \subseteq { t.id : t \in tasks })

====
